---- MODULE Spec2Model ----
(***************************************************************************)
(* The triage scheduler of the on-call triage dashboard                    *)
(* (TriageService, apps/api triage.service.ts and its apps/web variant):   *)
(* the SchedulerLock lease protocol, runSchedulerTick with its catch-up    *)
(* cycles, heartbeat and per-cycle timeout, runOnce / collectAlerts /      *)
(* processAlert, the TriageRun life cycle and the public operations.       *)
(*                                                                         *)
(* Several service instances (processes, one ownerId each) share one       *)
(* store.  A thread is one in-flight invocation of runSchedulerTick of a   *)
(* process together with the runOnce promise it started; JavaScript runs   *)
(* the code between two awaits atomically, so every action is one store    *)
(* call (or one timer / external completion) followed by the synchronous   *)
(* code up to the next await.                                              *)
(*                                                                         *)
(* Time is in milliseconds and advances in steps of 5 s, the floor of the  *)
(* heartbeat interval.  Store calls are taken to complete within the       *)
(* current instant: the clock advances only while every thread waits on a  *)
(* timer or on an external collaborator (monitoring fetch, enrichment,     *)
(* provider), and interval timers fire on time.  A refreshLease issued by  *)
(* the heartbeat is fire-and-forget: the store applies it in a step of its *)
(* own, in any order with the other store calls of the instant.            *)
(*                                                                         *)
(* Store calls that follow each other without a decision of the program in *)
(* between are one step: the upsert of handleCron and the entry of the     *)
(* tick, the per-monitor exists checks of collectAlerts, the creation of   *)
(* the AlertEvent and of the TriageRun in processAlert, the three calls of *)
(* forceClearRunning.  The insert of an AlertEvent is a plain insert, as   *)
(* in the code, which handles no constraint violation there.               *)
(*                                                                         *)
(* entry and ret are observations: what a tick saw when it was entered     *)
(* and the result of the invocation that has just returned.                *)
(*                                                                         *)
(* gatherEvidence (evidence pipeline, runStep), provider.run of the codex  *)
(* and opencode providers (child process, timeout and kill timers) and     *)
(* truncate are modelled as calls of their own, in ev, prov and tr, each   *)
(* with its own specification; in the scheduler's specifications their     *)
(* outcome is the provider call of a run resolving or rejecting.  The      *)
(* stages of runTriage before the provider call (evidence given, gathered  *)
(* or replaced by the fallback bundle, then saved) are steps of their own  *)
(* in SpecTriage; SpecSweep puts the stale-run sweep and a provider call   *)
(* side by side with their default timeouts, in steps of two minutes.      *)
(*                                                                         *)
(* A process that exits (crash) is gone for good: its ownerId is made of   *)
(* its pid and a random suffix, so a restarted service is another owner.   *)
(***************************************************************************)
EXTENDS Integers, Sequences, FiniteSets, TLC

----------------------------------------------------------------------------
(* Bounds of the model *)

MaxSteps == 2        \* the clock takes at most this many steps of TimeStep
ShortSteps == 1      \* the same, where overlapping invocations are explored
MaxRuns == 2         \* TriageRun rows that may be created
MaxTicks == 2        \* invocations of runSchedulerTick
MaxFaults == 1       \* store calls that may throw
MaxCatchup == 2      \* TRIAGE_MAX_CATCHUP as configured in the model
MaxLen == 10         \* length of the strings handed to truncate
DefaultIntervalMs == 60000
DefaultMaxCatchup == 5

(* Program constants *)

HeartbeatFloorMs == 5000     \* Math.max(5_000, ...)
CronPeriodMs == 60000        \* CronExpression.EVERY_MINUTE, intervalMs > 60_000
CronSlackMs == 1000          \* Math.max(intervalMs - 1_000, 0)

(* The configuration the model runs: TRIAGE_INTERVAL_MS = 5000,            *)
(* TRIAGE_LEASE_MS unset (2 * interval) unless a specification chooses it, *)
(* TRIAGE_RUNONCE_TIMEOUT_MS = 5000, TRIAGE_RUN_TIMEOUT_MS = 5000.         *)
TimeStep == HeartbeatFloorMs
IntervalMs == TimeStep
DefaultLeaseMs == IntervalMs * 2
RunOnceTimeoutMs == TimeStep
StaleRunTimeoutMs == TimeStep
InitClock == TimeStep
Epoch == 0
NoTime == 0 - 1

Procs == {"p1", "p2"}
Threads == {<<"p1", 1>>, <<"p1", 2>>, <<"p2", 1>>}
ProcOf(t) == t[1]
ThreadsOf(p) == {t \in Threads : ProcOf(t) = p}

Alerts == {"a", "b"}             \* (monitorId, overallStateModified) pairs

----------------------------------------------------------------------------
VARIABLES
  clock,          \* Date.now()
  leaseMs,        \* TRIAGE_LEASE_MS
  feed,           \* the alerting monitors the monitoring source reports, in order
  intervalMs,     \* TRIAGE_INTERVAL_MS
  maxCatchup,     \* TRIAGE_MAX_CATCHUP
  ev,             \* a gatherEvidence call: its parameters, locals and result
  prov,           \* a provider.run call: its child processes, timers and result
  tr,             \* a truncate call: its arguments and result
  lock,           \* the SchedulerLock row 'triage-scheduler'
  lastRunAt,      \* SchedulerState 'default': lastRunAt
  lastError,      \* SchedulerState 'default': lastError is set
  events,         \* AlertEvent rows: how many per (monitorId, overallStateModified)
  runs,           \* TriageRun rows, id = index
  live,           \* ids of the runs whose runTriage is executing
  isRunning,      \* per process: this.isRunning
  isShuttingDown, \* per process: this.isShuttingDown (web)
  pc,             \* per thread: position in runSchedulerTick
  now,            \* per thread: const now = new Date()
  staleIds,       \* per thread: ids failStaleRuns found
  entry,          \* per thread: how the tick was entered and what it saw then
  backlog,        \* per thread: backlog of the tick
  cycleNo,        \* per thread: loop counter i
  hbAt,           \* per thread: next firing of the heartbeat interval timer
  refresh,        \* per thread: 'now' of a refreshLease call not yet applied
  timeoutAt,      \* per thread: firing time of withTimeout's timer
  cpc,            \* per thread: position of the runOnce promise
  awaited,        \* per thread: the tick still awaits the runOnce promise
  queue,          \* per thread: alerts collected and not yet processed
  cur,            \* per thread: id of the run processAlert awaits
  reproc,         \* the processAlert started by reprocessLastError
  faults,         \* store calls that have thrown
  ticks,          \* invocations of runSchedulerTick so far
  ret             \* the tick invocation that has just returned

vars == <<clock, leaseMs, feed, intervalMs, maxCatchup, ev, prov, tr, lock, lastRunAt, lastError, events, runs, live,
          isRunning, isShuttingDown, pc, now, staleIds, entry, backlog,
          cycleNo, hbAt, refresh, timeoutAt, cpc, awaited, queue, cur,
          reproc, faults, ticks, ret>>

cfgVars == <<leaseMs, feed, intervalMs, maxCatchup, ev, prov, tr>>
storeVars == <<lock, lastRunAt, lastError, events, runs, live>>
tickVars == <<pc, now, staleIds, entry, backlog, cycleNo, hbAt, timeoutAt>>
cycleVars == <<cpc, awaited, queue, cur>>

----------------------------------------------------------------------------
(* Arithmetic *)

Min(a, b) == IF a < b THEN a ELSE b
Max(a, b) == IF a > b THEN a ELSE b
CeilDiv(a, b) == (a + b - 1) \div b

----------------------------------------------------------------------------
(* The SchedulerLock row and the lease protocol *)

NoLock == [exists |-> FALSE, ownerId |-> "-", leaseExpiresAt |-> Epoch]
Lease(owner, expiresAt) ==
  [exists |-> TRUE, ownerId |-> owner, leaseExpiresAt |-> expiresAt]

\* where: { OR: [{ leaseExpiresAt: { lt: now } }, { ownerId }] }
AcquireWhereAnyLease(l, owner, at) == l.exists
AcquireWhereOwnerOnly(l, owner, at) == l.exists /\ l.ownerId = owner
AcquireWhereExpiredOnly(l, owner, at) == l.exists /\ l.leaseExpiresAt < at
AcquireWhere(l, owner, at) ==
  l.exists /\ (l.leaseExpiresAt < at \/ l.ownerId = owner)

\* where: { leaseExpiresAt: { lt: now } } of the retry
RetryWhere(l, at) == l.exists /\ l.leaseExpiresAt < at

\* where: { ownerId } of refreshLease and releaseLease
OwnedBy(l, owner) == l.exists /\ l.ownerId = owner

RefreshAnyOwner(l, owner, at, ms) ==
  IF l.exists THEN Lease(l.ownerId, at + ms) ELSE l

\* refreshLease(now, leaseMs)
RefreshLease(l, owner, at, ms) ==
  IF OwnedBy(l, owner) THEN Lease(owner, at + ms) ELSE l

\* releaseLease(): leaseExpiresAt: new Date()
ReleaseLease(l, owner, at) ==
  IF OwnedBy(l, owner) THEN Lease(owner, at) ELSE l

\* startLeaseHeartbeat: Math.max(5_000, Math.floor(leaseMs / 2))
HeartbeatInterval(ms) == Max(HeartbeatFloorMs, ms \div 2)

----------------------------------------------------------------------------
(* Catch-up arithmetic of runSchedulerTick *)

BacklogFloor(last, at, interval, cap) ==
  LET truthy == last # NoTime /\ last # 0
      gap == IF truthy THEN at - last ELSE 0
  IN IF truthy /\ gap > interval
       THEN Min(cap, gap \div interval)
       ELSE 1

\* lastRunAt && gap > intervalMs ? Math.min(maxCatchup, Math.ceil(gap / intervalMs)) : 1
Backlog(last, at, interval, cap) ==
  LET truthy == last # NoTime /\ last # 0
      gap == IF truthy THEN at - last ELSE 0
  IN IF truthy /\ gap > interval
       THEN Min(cap, CeilDiv(gap, interval))
       ELSE 1

----------------------------------------------------------------------------
(* TriageRun rows *)

\* evidence is the row's evidence column; stage, bundle and gathers are the
\* position, the local `evidence` and the gatherEvidence calls of the row's
\* runTriage (observations, not columns)
Run(alert, createdAt, parent, gather) ==
  [alert |-> alert, status |-> "running", createdAt |-> createdAt,
   parent |-> parent, gather |-> gather, error |-> "none", report |-> FALSE,
   outcome |-> "pending", evidence |-> "none", stage |-> "created",
   bundle |-> "none", gathers |-> 0]
RunIds == DOMAIN runs
RunningIds == {r \in RunIds : runs[r].status = "running"}

\* provider.run of run id has settled (an observation, not a column)
Settled(rs, id, outcome) == [rs EXCEPT ![id].outcome = outcome]

\* failStaleRuns: where { status: 'running', createdAt: { lt: threshold } }
StaleAfter(at, timeoutMs) ==
  {r \in RunIds : runs[r].status = "running"
                  /\ runs[r].createdAt < at - timeoutMs}
StaleIds(at) == StaleAfter(at, StaleRunTimeoutMs)

\* updateMany({ where: { id: { in: ids } }, data: { status: 'failed', ... } })
FailAll(rs, ids, error) ==
  [r \in DOMAIN rs |->
     IF r \in ids THEN [rs[r] EXCEPT !.status = "failed", !.error = error] ELSE rs[r]]

\* executeProviderRun: triageRun.update({ where: { id }, data: { status:
\* 'complete', reportMarkdown, sessionId, sessionUrl, finishedAt } })
CompleteRun(rs, id) == [rs EXCEPT ![id].status = "complete", ![id].report = TRUE]

\* failRun: triageRun.update({ where: { id }, data: { status: 'failed', error,
\* finishedAt } })
FailRun(rs, id, error) == [rs EXCEPT ![id].status = "failed", ![id].error = error]

----------------------------------------------------------------------------
NoEntry == [by |-> "none", expect |-> 0, held |-> FALSE]
NoRet == [thread |-> <<"-", 0>>, result |-> "none", acquired |-> FALSE,
          entry |-> NoEntry]
Returned(t, result, acquired) ==
  [thread |-> t, result |-> result, acquired |-> acquired, entry |-> entry[t]]
NoReproc == [alert |-> "-", found |-> FALSE]

\* no tick under way, no alert seen yet; the lock row is one of locks
InitStore(leases, lastRuns, feeds, locks) ==
  /\ leaseMs \in leases
  /\ feed \in feeds
  /\ lock \in locks
  /\ lastRunAt \in lastRuns
  /\ lastError = FALSE
  /\ events = [k \in Alerts |-> 0]
  /\ runs = <<>>
  /\ live = {}
  /\ isRunning = [p \in Procs |-> FALSE]
  /\ isShuttingDown = [p \in Procs |-> FALSE]
  /\ pc = [t \in Threads |-> "idle"]
  /\ now = [t \in Threads |-> NoTime]
  /\ staleIds = [t \in Threads |-> {}]
  /\ entry = [t \in Threads |-> NoEntry]
  /\ backlog = [t \in Threads |-> 0]
  /\ cycleNo = [t \in Threads |-> 0]
  /\ hbAt = [t \in Threads |-> NoTime]
  /\ refresh = [t \in Threads |-> NoTime]
  /\ timeoutAt = [t \in Threads |-> NoTime]
  /\ cpc = [t \in Threads |-> "none"]
  /\ awaited = [t \in Threads |-> FALSE]
  /\ queue = [t \in Threads |-> <<>>]
  /\ cur = [t \in Threads |-> 0]
  /\ reproc = NoReproc
  /\ faults = 0
  /\ ticks = 0
  /\ ret = NoRet

\* nothing stored but the scheduler state, no tick under way
InitIdle(leases, lastRuns, feeds) == InitStore(leases, lastRuns, feeds, {NoLock})

\* no gatherEvidence call is looked at
NoEvidence ==
  [env |-> [repo |-> "none", tools |-> {}, creds |-> FALSE], phase |-> "idle",
   at |-> 0, steps |-> <<>>, repoPath |-> FALSE, thrown |-> {}, result |-> "none",
   artifacts |-> {}]

\* no truncate call is looked at
NoTruncate == [phase |-> "idle", value |-> <<>>, max |-> 0, result |-> <<>>]

\* no provider.run call is looked at
NoProvider ==
  [kind |-> "none", allowFallback |-> FALSE, model |-> FALSE, timeoutMs |-> 0,
   startedAt |-> NoTime, children |-> <<>>, selfExit |-> FALSE,
   result |-> "none", thrownBy |-> 0, settledAt |-> NoTime]

InitWith(leases, lastRuns, feeds) ==
  /\ clock = InitClock
  /\ ev = NoEvidence
  /\ prov = NoProvider
  /\ tr = NoTruncate
  /\ intervalMs = IntervalMs
  /\ maxCatchup = MaxCatchup
  /\ InitIdle(leases, lastRuns, feeds)

----------------------------------------------------------------------------
(* runSchedulerTick: entry, stale-run sweep and lease acquisition *)

procVars == <<isRunning, isShuttingDown>>

\* the lock row is owned by another owner and its lease lies in the future
HeldByOther(p) == lock.exists /\ lock.ownerId # p /\ lock.leaseExpiresAt > clock

EntryOf(t, by) ==
  [by |-> by,
   expect |-> Backlog(lastRunAt, clock, intervalMs, maxCatchup),
   held |-> HeldByOther(ProcOf(t))]

\* if (this.isRunning) return { processed: 0, skipped: 'already_running' };
\* this.isRunning = true; await this.failStaleRuns();
RunSchedulerTick(t, by) ==
  IF isRunning[ProcOf(t)]
    THEN /\ ret' = [thread |-> t, result |-> "already_running",
                    acquired |-> FALSE, entry |-> EntryOf(t, by)]
         /\ UNCHANGED <<isRunning, pc, entry>>
    ELSE /\ isRunning' = [isRunning EXCEPT ![ProcOf(t)] = TRUE]
         /\ pc' = [pc EXCEPT ![t] = "stale"]
         /\ entry' = [entry EXCEPT ![t] = EntryOf(t, by)]
         /\ ret' = NoRet

\* handleCron: Date.now() - lastRunAt < Math.max(intervalMs - 1_000, 0)
CronSkips(interval, last, at) ==
  interval > CronPeriodMs /\ at - last < Max(interval - CronSlackMs, 0)

\* @Cron(EVERY_MINUTE) handleCron (and onModuleInit / initialize)
HandleCron(t) ==
  /\ pc[t] = "idle" /\ cpc[t] = "none"
  /\ ~isShuttingDown[ProcOf(t)]
  /\ ticks < MaxTicks
  /\ ticks' = ticks + 1
  /\ lastRunAt' = clock
  /\ IF CronSkips(intervalMs, clock, clock)
       THEN ret' = NoRet /\ UNCHANGED <<isRunning, pc, entry>>
       ELSE RunSchedulerTick(t, "cron")
  /\ UNCHANGED <<clock, cfgVars, lock, lastError, events, runs, live,
                 isShuttingDown, now, staleIds, backlog, cycleNo, hbAt,
                 timeoutAt, cycleVars, refresh, reproc, faults>>

\* triggerRun: if (this.isRunning) return {queued: false}; void this.runSchedulerTick()
TriggerRun(t) ==
  /\ pc[t] = "idle" /\ cpc[t] = "none"
  /\ ~isRunning[ProcOf(t)]
  /\ ticks < MaxTicks
  /\ ticks' = ticks + 1
  /\ RunSchedulerTick(t, "manual")
  /\ UNCHANGED <<clock, cfgVars, storeVars, isShuttingDown, now, staleIds,
                 backlog, cycleNo, hbAt, timeoutAt, cycleVars, refresh, reproc,
                 faults>>

\* a store call outside try/finally throws: the tick rejects, the flag stays set
TickRejects(t) ==
  /\ faults < MaxFaults
  /\ faults' = faults + 1
  /\ pc' = [pc EXCEPT ![t] = "idle"]
  /\ now' = [now EXCEPT ![t] = NoTime]
  /\ staleIds' = [staleIds EXCEPT ![t] = {}]
  /\ entry' = [entry EXCEPT ![t] = NoEntry]
  /\ ret' = Returned(t, "threw", FALSE)
  /\ UNCHANGED <<clock, cfgVars, ticks, storeVars, procVars, backlog, cycleNo, hbAt,
                 timeoutAt, cycleVars, refresh, reproc>>

\* failStaleRuns: findMany({ where: { status: 'running', createdAt: { lt } } })
StaleFind(t) ==
  /\ pc[t] = "stale"
  /\ IF StaleIds(clock) = {}
       THEN /\ pc' = [pc EXCEPT ![t] = "acq_upd"]
            /\ now' = [now EXCEPT ![t] = clock]
            /\ UNCHANGED staleIds
       ELSE /\ pc' = [pc EXCEPT ![t] = "stale_upd"]
            /\ staleIds' = [staleIds EXCEPT ![t] = StaleIds(clock)]
            /\ UNCHANGED now
  /\ ret' = NoRet
  /\ UNCHANGED <<clock, cfgVars, ticks, storeVars, procVars, entry, backlog, cycleNo,
                 hbAt, timeoutAt, cycleVars, refresh, reproc, faults>>

\* await this.failStaleRuns() throws: it is called before the try
FailStaleRunsThrows(t) == pc[t] \in {"stale", "stale_upd"} /\ TickRejects(t)

\* failStaleRuns: updateMany({ where: { id: { in: ids } }, data: { status: 'failed' } })
StaleUpdate(t) ==
  /\ pc[t] = "stale_upd"
  /\ runs' = FailAll(runs, staleIds[t], "Timed out")
  /\ staleIds' = [staleIds EXCEPT ![t] = {}]
  /\ pc' = [pc EXCEPT ![t] = "acq_upd"]
  /\ now' = [now EXCEPT ![t] = clock]
  /\ ret' = NoRet
  /\ UNCHANGED <<clock, cfgVars, ticks, lock, lastRunAt, lastError, events, live,
                 procVars, entry, backlog, cycleNo, hbAt, timeoutAt, cycleVars,
                 refresh, reproc, faults>>

\* acquireLease returned true: const stopHeartbeat = this.startLeaseHeartbeat(leaseMs)
Acquired(t) ==
  /\ lock' = Lease(ProcOf(t), now[t] + leaseMs)
  /\ hbAt' = [hbAt EXCEPT ![t] = clock + HeartbeatInterval(leaseMs)]
  /\ pc' = [pc EXCEPT ![t] = "read"]
  /\ ret' = NoRet
  /\ UNCHANGED <<isRunning, now, entry>>

\* acquireLease returned false: this.isRunning = false; return lease_not_acquired
NotAcquiredKeepsFlag(t) ==
  /\ pc' = [pc EXCEPT ![t] = "idle"]
  /\ now' = [now EXCEPT ![t] = NoTime]
  /\ entry' = [entry EXCEPT ![t] = NoEntry]
  /\ ret' = Returned(t, "lease_not_acquired", FALSE)
  /\ UNCHANGED <<lock, hbAt, isRunning>>
NotAcquired(t) ==
  /\ isRunning' = [isRunning EXCEPT ![ProcOf(t)] = FALSE]
  /\ pc' = [pc EXCEPT ![t] = "idle"]
  /\ now' = [now EXCEPT ![t] = NoTime]
  /\ entry' = [entry EXCEPT ![t] = NoEntry]
  /\ ret' = Returned(t, "lease_not_acquired", FALSE)
  /\ UNCHANGED <<lock, hbAt>>

acquireFrame == <<clock, cfgVars, ticks, lastRunAt, lastError, events, runs, live,
                  isShuttingDown, staleIds, backlog, cycleNo, timeoutAt,
                  cycleVars, refresh, reproc, faults>>

\* acquireLease: the first updateMany
AcquireUpdate(t) ==
  /\ pc[t] = "acq_upd"
  /\ IF AcquireWhere(lock, ProcOf(t), now[t])
       THEN Acquired(t)
       ELSE /\ pc' = [pc EXCEPT ![t] = "acq_find"]
            /\ ret' = NoRet
            /\ UNCHANGED <<lock, hbAt, isRunning, now, entry>>
  /\ UNCHANGED acquireFrame

\* await this.acquireLease(now, leaseMs) throws: it is called before the try
AcquireLeaseThrows(t) ==
  /\ pc[t] \in {"acq_upd", "acq_find", "acq_create", "acq_retry"}
  /\ TickRejects(t)

\* acquireLease: findUnique, then the branch on !existing and on
\* existing.leaseExpiresAt < now
AcquireFind(t) ==
  /\ pc[t] = "acq_find"
  /\ IF ~lock.exists
       THEN /\ pc' = [pc EXCEPT ![t] = "acq_create"]
            /\ ret' = NoRet
            /\ UNCHANGED <<lock, hbAt, isRunning, now, entry>>
       ELSE IF lock.leaseExpiresAt < now[t]
         THEN /\ pc' = [pc EXCEPT ![t] = "acq_retry"]
              /\ ret' = NoRet
              /\ UNCHANGED <<lock, hbAt, isRunning, now, entry>>
         ELSE NotAcquired(t)
  /\ UNCHANGED acquireFrame

AcquireCreateOverwrites(t) ==
  /\ pc[t] = "acq_create"
  /\ Acquired(t)
  /\ UNCHANGED acquireFrame

\* acquireLease: create; P2002 (the row exists by now) is a lost race
AcquireCreate(t) ==
  /\ pc[t] = "acq_create"
  /\ IF ~lock.exists THEN Acquired(t) ELSE NotAcquired(t)
  /\ UNCHANGED acquireFrame

\* acquireLease: the retry updateMany
AcquireRetry(t) ==
  /\ pc[t] = "acq_retry"
  /\ IF RetryWhere(lock, now[t]) THEN Acquired(t) ELSE NotAcquired(t)
  /\ UNCHANGED acquireFrame

----------------------------------------------------------------------------
(* runSchedulerTick: the catch-up loop, catch and finally *)

\* this.withTimeout(this.runOnce(), runTimeoutMs, ...): runOnce runs up to its
\* first await (the upsert of lastRunAt) and the timer is armed
StartCycle(t) ==
  /\ cpc' = [cpc EXCEPT ![t] = "start"]
  /\ awaited' = [awaited EXCEPT ![t] = TRUE]
  /\ timeoutAt' = [timeoutAt EXCEPT ![t] = clock + RunOnceTimeoutMs]

\* schedulerState.findUnique, gap and backlog, then the first cycle
ReadState(t) ==
  /\ pc[t] = "read"
  /\ backlog' = [backlog EXCEPT ![t] = Backlog(lastRunAt, now[t], intervalMs, maxCatchup)]
  /\ cycleNo' = [cycleNo EXCEPT ![t] = 0]
  /\ pc' = [pc EXCEPT ![t] = "await"]
  /\ StartCycle(t)
  /\ ret' = NoRet
  /\ UNCHANGED <<clock, cfgVars, ticks, storeVars, procVars, now, staleIds, entry,
                 hbAt, queue, cur, refresh, reproc, faults>>

\* schedulerState.findUnique throws inside try: on to catch
ReadStateThrows(t) ==
  /\ pc[t] = "read"
  /\ faults < MaxFaults
  /\ faults' = faults + 1
  /\ pc' = [pc EXCEPT ![t] = "catch"]
  /\ ret' = NoRet
  /\ UNCHANGED <<clock, cfgVars, ticks, storeVars, procVars, now, staleIds, entry,
                 backlog, cycleNo, hbAt, timeoutAt, cycleVars, refresh, reproc>>

\* withTimeout: setTimeout(() => reject(new Error(message)), timeoutMs); the
\* runOnce promise is not cancelled
CycleTimeout(t) ==
  /\ pc[t] = "await" /\ awaited[t]
  /\ clock >= timeoutAt[t]
  /\ pc' = [pc EXCEPT ![t] = "catch"]
  /\ awaited' = [awaited EXCEPT ![t] = FALSE]
  /\ timeoutAt' = [timeoutAt EXCEPT ![t] = NoTime]
  /\ ret' = NoRet
  /\ UNCHANGED <<clock, cfgVars, ticks, storeVars, procVars, now, staleIds, entry,
                 backlog, cycleNo, hbAt, cpc, queue, cur, refresh, reproc,
                 faults>>

\* catch: updateSchedulerState({ lastError }); then finally: stopHeartbeat()
Catch(t) ==
  /\ pc[t] = "catch"
  /\ lastError' = TRUE
  /\ pc' = [pc EXCEPT ![t] = "release_err"]
  /\ hbAt' = [hbAt EXCEPT ![t] = NoTime]
  /\ ret' = NoRet
  /\ UNCHANGED <<clock, cfgVars, ticks, lock, lastRunAt, events, runs, live, procVars,
                 now, staleIds, entry, backlog, cycleNo, timeoutAt, cycleVars,
                 refresh, reproc, faults>>

\* catch: updateSchedulerState throws; finally still runs, then the tick rejects
CatchThrows(t) ==
  /\ pc[t] = "catch"
  /\ faults < MaxFaults
  /\ faults' = faults + 1
  /\ pc' = [pc EXCEPT ![t] = "release_thr"]
  /\ hbAt' = [hbAt EXCEPT ![t] = NoTime]
  /\ ret' = NoRet
  /\ UNCHANGED <<clock, cfgVars, ticks, storeVars, procVars, now, staleIds, entry,
                 backlog, cycleNo, timeoutAt, cycleVars, refresh, reproc>>

ReleasePcs == {"release_ok", "release_err", "release_thr"}
AcquirePcs == {"acq_upd", "acq_find", "acq_create", "acq_retry"}
HoldingPcs == {"read", "await", "catch"} \cup ReleasePcs
ResultOf(p) ==
  IF p = "release_ok" THEN "ok" ELSE IF p = "release_err" THEN "error" ELSE "threw"

\* the tick is over: its locals are gone
EndTick(t) ==
  /\ pc' = [pc EXCEPT ![t] = "idle"]
  /\ now' = [now EXCEPT ![t] = NoTime]
  /\ entry' = [entry EXCEPT ![t] = NoEntry]
  /\ backlog' = [backlog EXCEPT ![t] = 0]
  /\ cycleNo' = [cycleNo EXCEPT ![t] = 0]

\* finally: await this.releaseLease(); this.isRunning = false
Release(t) ==
  /\ pc[t] \in ReleasePcs
  /\ lock' = ReleaseLease(lock, ProcOf(t), clock)
  /\ isRunning' = [isRunning EXCEPT ![ProcOf(t)] = FALSE]
  /\ EndTick(t)
  /\ ret' = Returned(t, ResultOf(pc[t]), TRUE)
  /\ UNCHANGED <<clock, cfgVars, ticks, lastRunAt, lastError, events, runs, live,
                 isShuttingDown, staleIds, hbAt, timeoutAt, cycleVars, refresh,
                 reproc, faults>>

\* releaseLease throws in finally: this.isRunning = false is not reached
ReleaseThrows(t) ==
  /\ pc[t] \in ReleasePcs
  /\ faults < MaxFaults
  /\ faults' = faults + 1
  /\ EndTick(t)
  /\ ret' = Returned(t, "threw", TRUE)
  /\ UNCHANGED <<clock, cfgVars, ticks, storeVars, procVars, staleIds, hbAt,
                 timeoutAt, cycleVars, refresh, reproc>>

----------------------------------------------------------------------------
(* The heartbeat *)

\* setInterval(() => { void this.refreshLease(new Date(), leaseMs) }, interval)
HeartbeatFire(t) ==
  /\ hbAt[t] # NoTime /\ hbAt[t] <= clock
  /\ refresh[t] = NoTime
  /\ refresh' = [refresh EXCEPT ![t] = clock]
  /\ hbAt' = [hbAt EXCEPT ![t] = hbAt[t] + HeartbeatInterval(leaseMs)]
  /\ ret' = NoRet
  /\ UNCHANGED <<clock, cfgVars, ticks, storeVars, procVars, pc, now, staleIds, entry,
                 backlog, cycleNo, timeoutAt, cycleVars, reproc, faults>>

\* the store applies the updateMany of a refreshLease call
RefreshApply(t) ==
  /\ refresh[t] # NoTime
  /\ lock' = RefreshLease(lock, ProcOf(t), refresh[t], leaseMs)
  /\ refresh' = [refresh EXCEPT ![t] = NoTime]
  /\ ret' = NoRet
  /\ UNCHANGED <<clock, cfgVars, ticks, lastRunAt, lastError, events, runs, live,
                 procVars, tickVars, cycleVars, reproc, faults>>

----------------------------------------------------------------------------
(* runOnce, collectAlerts, processAlert *)

\* the runOnce promise settles: the awaiting tick goes on with the next cycle,
\* with finally (stopHeartbeat) or with catch; an abandoned promise just ends
Settle(t, resolved) ==
  IF ~awaited[t]
    THEN /\ cpc' = [cpc EXCEPT ![t] = "none"]
         /\ UNCHANGED <<awaited, pc, cycleNo, hbAt, timeoutAt>>
    ELSE IF ~resolved
      THEN /\ cpc' = [cpc EXCEPT ![t] = "none"]
           /\ awaited' = [awaited EXCEPT ![t] = FALSE]
           /\ timeoutAt' = [timeoutAt EXCEPT ![t] = NoTime]
           /\ pc' = [pc EXCEPT ![t] = "catch"]
           /\ UNCHANGED <<cycleNo, hbAt>>
      ELSE IF cycleNo[t] + 1 < backlog[t]
        THEN /\ cycleNo' = [cycleNo EXCEPT ![t] = cycleNo[t] + 1]
             /\ StartCycle(t)
             /\ UNCHANGED <<pc, hbAt>>
        ELSE /\ cpc' = [cpc EXCEPT ![t] = "none"]
             /\ awaited' = [awaited EXCEPT ![t] = FALSE]
             /\ timeoutAt' = [timeoutAt EXCEPT ![t] = NoTime]
             /\ cycleNo' = [cycleNo EXCEPT ![t] = cycleNo[t] + 1]
             /\ hbAt' = [hbAt EXCEPT ![t] = NoTime]
             /\ pc' = [pc EXCEPT ![t] = "release_ok"]

\* runOnce: updateSchedulerState({ lastRunAt: new Date(), lastError: null })
CycleStart(t) ==
  /\ cpc[t] = "start"
  /\ lastRunAt' = clock
  /\ lastError' = FALSE
  /\ cpc' = [cpc EXCEPT ![t] = "fetch"]
  /\ ret' = NoRet
  /\ UNCHANGED <<clock, cfgVars, ticks, lock, events, runs, live, procVars, tickVars,
                 awaited, queue, cur, refresh, reproc, faults>>

\* that upsert throws outside runOnce's try: the promise rejects
CycleStartThrows(t) ==
  /\ cpc[t] = "start"
  /\ faults < MaxFaults
  /\ faults' = faults + 1
  /\ Settle(t, FALSE)
  /\ ret' = NoRet
  /\ UNCHANGED <<clock, cfgVars, ticks, storeVars, procVars, now, staleIds, entry,
                 backlog, queue, cur, refresh, reproc>>

\* collectAlerts: the monitoring source fails (catch: return [])
CycleFetchFails(t) ==
  /\ cpc[t] = "fetch"
  /\ cpc' = [cpc EXCEPT ![t] = "success"]
  /\ ret' = NoRet
  /\ UNCHANGED <<clock, cfgVars, ticks, storeVars, procVars, tickVars, awaited, queue,
                 cur, refresh, reproc, faults>>

\* alertEvent.findFirst({ where: { monitorId, overallStateModified } })
Unseen(k) == events[k] = 0

\* collectAlerts: the monitoring source answers; per monitor
\* alertEvent.findFirst and if (exists) continue
CycleCollect(t) ==
  /\ cpc[t] = "fetch"
  /\ LET q == SelectSeq(feed, Unseen)
     IN /\ queue' = [queue EXCEPT ![t] = q]
        /\ cpc' = [cpc EXCEPT ![t] = IF q = <<>> THEN "success" ELSE "enrich"]
  /\ ret' = NoRet
  /\ UNCHANGED <<clock, cfgVars, ticks, storeVars, procVars, tickVars, awaited, cur,
                 refresh, reproc, faults>>

\* processAlert: after enrichAlert, alertEvent.create and triageRun.create
\* ({ status: 'running' }), then runTriage
ProcessAlert(t) ==
  /\ cpc[t] = "enrich"
  /\ Len(runs) < MaxRuns
  /\ events' = [events EXCEPT ![Head(queue[t])] = @ + 1]
  /\ runs' = Append(runs, Run(Head(queue[t]), clock, 0, TRUE))
  /\ live' = live \cup {Len(runs) + 1}
  /\ cur' = [cur EXCEPT ![t] = Len(runs) + 1]
  /\ cpc' = [cpc EXCEPT ![t] = "triage"]
  /\ ret' = NoRet
  /\ UNCHANGED <<clock, cfgVars, ticks, lock, lastRunAt, lastError, procVars, tickVars,
                 awaited, queue, refresh, reproc, faults>>

\* runTriage comes back to runOnce's loop: the next alert, or the cycle's end
AfterTriage(r) ==
  /\ cpc' = [t \in Threads |->
               IF cpc[t] = "triage" /\ cur[t] = r
                 THEN (IF Len(queue[t]) > 1 THEN "enrich" ELSE "success")
                 ELSE cpc[t]]
  /\ queue' = [t \in Threads |->
               IF cpc[t] = "triage" /\ cur[t] = r THEN Tail(queue[t]) ELSE queue[t]]
  /\ cur' = [t \in Threads |->
               IF cpc[t] = "triage" /\ cur[t] = r THEN 0 ELSE cur[t]]

\* executeProviderRun: provider.run resolved, update({ status: 'complete' })
ProviderCompletes(r) ==
  /\ r \in live
  /\ runs' = CompleteRun(Settled(runs, r, "resolved"), r)
  /\ live' = live \ {r}
  /\ AfterTriage(r)
  /\ ret' = NoRet
  /\ UNCHANGED <<clock, cfgVars, ticks, lock, lastRunAt, lastError, events, procVars,
                 tickVars, awaited, refresh, reproc, faults>>

\* runTriage's catch: failRun, update({ status: 'failed' })
ProviderFails(r) ==
  /\ r \in live
  /\ runs' = FailRun(Settled(runs, r, "rejected"), r, "provider")
  /\ live' = live \ {r}
  /\ AfterTriage(r)
  /\ ret' = NoRet
  /\ UNCHANGED <<clock, cfgVars, ticks, lock, lastRunAt, lastError, events, procVars,
                 tickVars, awaited, refresh, reproc, faults>>

\* executeProviderRun: provider.run resolved, but the update to 'complete'
\* throws; runTriage's catch: failRun with that error
CompleteThrows(r) ==
  /\ r \in live
  /\ faults < MaxFaults
  /\ faults' = faults + 1
  /\ runs' = FailRun(Settled(runs, r, "resolved"), r, "store")
  /\ live' = live \ {r}
  /\ AfterTriage(r)
  /\ ret' = NoRet
  /\ UNCHANGED <<clock, cfgVars, ticks, lock, lastRunAt, lastError, events, procVars,
                 tickVars, awaited, refresh, reproc>>

\* the exception leaves processAlert: runOnce's loop is over, on to its catch
LoopThrows(r) ==
  /\ cpc' = [t \in Threads |->
               IF cpc[t] = "triage" /\ cur[t] = r THEN "failed" ELSE cpc[t]]
  /\ queue' = [t \in Threads |->
               IF cpc[t] = "triage" /\ cur[t] = r THEN Tail(queue[t]) ELSE queue[t]]
  /\ cur' = [t \in Threads |->
               IF cpc[t] = "triage" /\ cur[t] = r THEN 0 ELSE cur[t]]

\* runTriage's catch: provider.run rejected and failRun's update throws too
FailRunThrows(r) ==
  /\ r \in live
  /\ faults < MaxFaults
  /\ faults' = faults + 1
  /\ runs' = Settled(runs, r, "rejected")
  /\ live' = live \ {r}
  /\ LoopThrows(r)
  /\ ret' = NoRet
  /\ UNCHANGED <<clock, cfgVars, ticks, lock, lastRunAt, lastError, events, procVars,
                 tickVars, awaited, refresh, reproc>>

\* processAlert: alertEvent.create throws, or triageRun.create throws after
\* the AlertEvent was inserted
ProcessAlertThrows(t) ==
  /\ cpc[t] = "enrich"
  /\ faults < MaxFaults
  /\ faults' = faults + 1
  /\ \E inserted \in {0, 1} :
       events' = [events EXCEPT ![Head(queue[t])] = @ + inserted]
  /\ queue' = [queue EXCEPT ![t] = Tail(queue[t])]
  /\ cpc' = [cpc EXCEPT ![t] = "failed"]
  /\ ret' = NoRet
  /\ UNCHANGED <<clock, cfgVars, ticks, lock, lastRunAt, lastError, runs, live,
                 procVars, tickVars, awaited, cur, refresh, reproc>>

\* runOnce's catch: updateSchedulerState({ lastError }); return { processed: 0, error }
CycleCatch(t) ==
  /\ cpc[t] = "failed"
  /\ lastError' = TRUE
  /\ Settle(t, TRUE)
  /\ ret' = NoRet
  /\ UNCHANGED <<clock, cfgVars, ticks, lock, lastRunAt, events, runs, live, procVars,
                 now, staleIds, entry, backlog, queue, cur, refresh, reproc, faults>>

\* runOnce: updateSchedulerState({ lastSuccessAt }); return { processed }
CycleSuccess(t) ==
  /\ cpc[t] = "success"
  /\ Settle(t, TRUE)
  /\ ret' = NoRet
  /\ UNCHANGED <<clock, cfgVars, ticks, storeVars, procVars, now, staleIds, entry,
                 backlog, queue, cur, refresh, reproc, faults>>

----------------------------------------------------------------------------
(* The other public operations *)

\* forceClearRunning: no running run: return { ok: false }; otherwise fail them,
\* schedulerLock.updateMany({ leaseExpiresAt: new Date(0) }), this.isRunning = false
ForceClear(p, returns) ==
  /\ IF RunningIds = {}
       THEN UNCHANGED <<runs, lock, isRunning>>
       ELSE /\ runs' = FailAll(runs, RunningIds, "Manually cleared")
            /\ lock' = IF lock.exists THEN Lease(lock.ownerId, Epoch) ELSE lock
            /\ isRunning' = [isRunning EXCEPT ![p] = FALSE]
  /\ ret' = returns
  /\ UNCHANGED <<clock, cfgVars, ticks, lastRunAt, lastError, events, live,
                 isShuttingDown, tickVars, cycleVars, refresh, reproc, faults>>
ForceClearRunning(p) == ForceClear(p, NoRet)

\* the same call with its return value looked at: { ok: false, cleared: 0 }
\* or { ok: true, cleared: ids.length }
ForceClearReturns(p) ==
  ForceClear(p, [NoRet EXCEPT !.thread = <<p, 0>>,
                              !.result = IF RunningIds = {} THEN "nothing_cleared"
                                                            ELSE "cleared"])

\* shutdown (web): isShuttingDown = true; await releaseLease(); isRunning = false
Shutdown(p) ==
  /\ ~isShuttingDown[p]
  /\ isShuttingDown' = [isShuttingDown EXCEPT ![p] = TRUE]
  /\ lock' = ReleaseLease(lock, p, clock)
  /\ isRunning' = [isRunning EXCEPT ![p] = FALSE]
  /\ ret' = NoRet
  /\ UNCHANGED <<clock, cfgVars, ticks, lastRunAt, lastError, events, runs, live,
                 tickVars, cycleVars, refresh, reproc, faults>>

\* the host process of instance p exits: its ticks, timers and calls in
\* flight are gone, and its ownerId (pid and a random suffix) is never used
\* again
Crash(p) ==
  /\ \E t \in ThreadsOf(p) : pc[t] \in HoldingPcs
  /\ pc' = [t \in Threads |-> IF ProcOf(t) = p THEN "crashed" ELSE pc[t]]
  /\ hbAt' = [t \in Threads |-> IF ProcOf(t) = p THEN NoTime ELSE hbAt[t]]
  /\ timeoutAt' = [t \in Threads |-> IF ProcOf(t) = p THEN NoTime ELSE timeoutAt[t]]
  /\ refresh' = [t \in Threads |-> IF ProcOf(t) = p THEN NoTime ELSE refresh[t]]
  /\ cpc' = [t \in Threads |-> IF ProcOf(t) = p THEN "none" ELSE cpc[t]]
  /\ awaited' = [t \in Threads |-> IF ProcOf(t) = p THEN FALSE ELSE awaited[t]]
  /\ ret' = NoRet
  /\ UNCHANGED <<clock, cfgVars, ticks, storeVars, procVars, now, staleIds, entry,
                 backlog, cycleNo, queue, cur, reproc, faults>>

\* reprocessLastError: void processAlert(lastError, { allowReprocess: true }),
\* which starts with findExistingAlertEvent
ReprocessLastError(k) ==
  /\ reproc = NoReproc
  /\ reproc' = [alert |-> k, found |-> events[k] > 0]
  /\ ret' = NoRet
  /\ UNCHANGED <<clock, cfgVars, ticks, storeVars, procVars, tickVars, cycleVars,
                 refresh, faults>>

\* that processAlert after enrichAlert: if (!alertRecord) alertEvent.create;
\* triageRun.create; runTriage
ReprocessAlert ==
  /\ reproc # NoReproc
  /\ Len(runs) < MaxRuns
  /\ events' = IF reproc.found THEN events
               ELSE [events EXCEPT ![reproc.alert] = @ + 1]
  /\ runs' = Append(runs, Run(reproc.alert, clock, 0, TRUE))
  /\ live' = live \cup {Len(runs) + 1}
  /\ reproc' = NoReproc
  /\ ret' = NoRet
  /\ UNCHANGED <<clock, cfgVars, ticks, lock, lastRunAt, lastError, procVars, tickVars,
                 cycleVars, refresh, faults>>

\* a child run of run r: triageRun.create({ status: 'running', parentRunId }),
\* continueRun's triageRun.update of the new row, and void this.runTriage(...)
ChildRun(r, gather) ==
  /\ r \in RunIds
  /\ Len(runs) < MaxRuns
  /\ runs' = Append(runs, [Run(runs[r].alert, clock, r, gather) EXCEPT
                             !.evidence = IF gather THEN "none" ELSE runs[r].evidence])
  /\ live' = live \cup {Len(runs) + 1}
  /\ ret' = NoRet
  /\ UNCHANGED <<clock, cfgVars, ticks, lock, lastRunAt, lastError, events, procVars,
                 tickVars, cycleVars, refresh, reproc, faults>>

\* continueRun(runId): gatherEvidence: false; the previous run's evidence is
\* copied to the new row and handed to runTriage
ContinueRun(r) == ChildRun(r, FALSE)

\* rerunRun(runId): gatherEvidence: true
RerunRun(r) == ChildRun(r, TRUE)

----------------------------------------------------------------------------
(* Time *)

TickWaits(t) == pc[t] \in {"idle", "await", "crashed"}
CycleWaits(t) == cpc[t] \in {"none", "fetch", "enrich", "triage"}
TimerDue(t) == hbAt[t] # NoTime /\ hbAt[t] <= clock

NextInstant ==
  LET c == {clock + TimeStep} \cup {hbAt[t] : t \in {u \in Threads : hbAt[u] # NoTime}}
  IN CHOOSE m \in c : \A x \in c : m <= x

Advance(steps) ==
  /\ clock < InitClock + steps * TimeStep
  /\ \A t \in Threads : TickWaits(t) /\ CycleWaits(t) /\ ~TimerDue(t)
                        /\ refresh[t] = NoTime
  /\ clock' = NextInstant
  /\ ret' = NoRet
  /\ UNCHANGED <<cfgVars, ticks, storeVars, procVars, tickVars, cycleVars, refresh,
                 reproc, faults>>

----------------------------------------------------------------------------
(* Specifications *)

\* the steps of a tick and of its cycles that touch neither alerts nor runs
LeaseStep(t) ==
  \/ StaleFind(t)
  \/ AcquireUpdate(t)
  \/ AcquireFind(t)
  \/ AcquireCreate(t)
  \/ ReadState(t)
  \/ CycleTimeout(t)
  \/ Catch(t)
  \/ Release(t)
  \/ HeartbeatFire(t)
  \/ RefreshApply(t)
  \/ CycleStart(t)
  \/ CycleCollect(t)
  \/ CycleSuccess(t)

\* the steps that exist once there are TriageRun rows
RunStep(t) ==
  \/ StaleUpdate(t)

\* the steps that exist once the monitoring source reports alerts
AlertStep(t) ==
  \/ CycleFetchFails(t)
  \/ ProcessAlert(t)

\* a store call throws
FaultStep(t) ==
  \/ FailStaleRunsThrows(t)
  \/ AcquireLeaseThrows(t)
  \/ ReadStateThrows(t)
  \/ CatchThrows(t)
  \/ ReleaseThrows(t)
  \/ CycleStartThrows(t)

\* Two service instances, cron-driven, one alerting monitor, an operator who
\* may force-clear.
LeaseThreads == {<<"p1", 1>>, <<"p2", 1>>}
Init == InitWith({DefaultLeaseMs}, {NoTime}, {<<"a">>})
Next ==
  \/ Advance(MaxSteps)
  \/ \E t \in LeaseThreads : HandleCron(t)
  \/ \E t \in Threads : LeaseStep(t)
  \/ \E t \in Threads : AcquireRetry(t)
  \/ \E t \in Threads : RunStep(t)
  \/ \E t \in Threads : AlertStep(t)
  \/ \E r \in RunIds : ProviderCompletes(r)
  \/ \E p \in Procs : ForceClearRunning(p)
Spec == Init /\ [][Next]_vars

\* One service instance on its own, any of the lease durations, with or
\* without a stored lastRunAt, cron-driven and manually triggered; the
\* monitoring source reports nothing.
SoloThreads == {<<"p1", 1>>}
LeaseChoices == {TimeStep \div 2, TimeStep, DefaultLeaseMs}
InitSolo == InitWith(LeaseChoices, {NoTime, InitClock}, {<<>>})
NextSolo ==
  \/ Advance(MaxSteps)
  \/ \E t \in SoloThreads : HandleCron(t)
  \/ \E t \in SoloThreads : TriggerRun(t)
  \/ \E t \in Threads : LeaseStep(t)
SpecSolo == InitSolo /\ [][NextSolo]_vars

\* One service instance whose store calls may throw.
InitFaults == InitWith({DefaultLeaseMs}, {NoTime}, {<<>>})
NextFaults ==
  \/ Advance(MaxSteps)
  \/ \E t \in SoloThreads : HandleCron(t)
  \/ \E t \in Threads : LeaseStep(t)
  \/ \E t \in Threads : FaultStep(t)
SpecFaults == InitFaults /\ [][NextFaults]_vars

\* One service instance with overlapping tick invocations (cron and manual
\* trigger), an alerting monitor, force-clear and shutdown.  The clock stops
\* before any run is old enough for the stale-run sweep.
ReentryThreads == {<<"p1", 1>>, <<"p1", 2>>}
SoloProcs == {"p1"}
InitReentry == InitWith({DefaultLeaseMs}, {NoTime}, {<<"a">>})
NextReentry ==
  \/ Advance(ShortSteps)
  \/ \E t \in ReentryThreads : HandleCron(t)
  \/ \E t \in ReentryThreads : TriggerRun(t)
  \/ \E t \in Threads : LeaseStep(t)
  \/ \E t \in Threads : AlertStep(t)
  \/ \E r \in RunIds : ProviderCompletes(r)
  \/ \E p \in SoloProcs : ForceClearRunning(p)
  \/ \E p \in SoloProcs : Shutdown(p)
SpecReentry == InitReentry /\ [][NextReentry]_vars

\* One service instance, an alerting monitor, failing providers, and the
\* operator's reprocessLastError, continueRun, rerunRun and forceClearRunning.
\* The clock stops before any run is old enough for the stale-run sweep.
InitRuns == InitWith({DefaultLeaseMs}, {NoTime}, {<<"a">>})
NextRuns ==
  \/ Advance(ShortSteps)
  \/ \E t \in SoloThreads : HandleCron(t)
  \/ \E t \in Threads : LeaseStep(t)
  \/ \E t \in Threads : AlertStep(t)
  \/ \E r \in RunIds : ProviderCompletes(r)
  \/ \E r \in RunIds : ProviderFails(r)
  \/ \E p \in SoloProcs : ForceClearRunning(p)
  \/ \E k \in Alerts : ReprocessLastError(k)
  \/ ReprocessAlert
  \/ \E r \in RunIds : ContinueRun(r)
  \/ \E r \in RunIds : RerunRun(r)
SpecRuns == InitRuns /\ [][NextRuns]_vars

----------------------------------------------------------------------------
(* Properties *)


\* the lock row is owned by p and its lease lies in the future
HoldsLease(p) == lock.exists /\ lock.ownerId = p /\ lock.leaseExpiresAt > clock

\* the lock row as thread t's acquireLease sees it: owned by another owner,
\* leaseExpiresAt not earlier than t's 'now'
HeldAgainst(t) ==
  lock.exists /\ lock.ownerId # ProcOf(t) /\ lock.leaseExpiresAt >= now[t]

\* C1: the lock row never passes from one owner to another while its lease
\* is unexpired: whenever the owner of the row changes, the new owner is a
\* process whose acquireLease has just succeeded, and the row's
\* leaseExpiresAt was not later than that acquirer's 'now'.
C1_NoTakeoverOfUnexpiredLease ==
  [][(lock.exists /\ lock'.exists /\ lock'.ownerId # lock.ownerId)
       => \E t \in Threads : /\ ProcOf(t) = lock'.ownerId
                              /\ pc[t] \in AcquirePcs /\ pc'[t] = "read"
                              /\ ~(lock.leaseExpiresAt > now[t])]_vars

\* an acquireLease of one owner has been refused by the first updateMany
\* while another owner's lease is unexpired
C1_Witness ==
  \E t \in Threads : pc[t] = "acq_find" /\ HeldAgainst(t)
                       /\ lock.leaseExpiresAt > now[t]

\* C2: at any instant at most one process executes cycle work, and a process
\* executes cycle work only while it owns an unexpired lease.
CycleWork(t) == cpc[t] \in {"fetch", "enrich", "triage"}
C2_OnlyLeaseHolderWorks ==
  /\ \A t \in Threads : CycleWork(t) => HoldsLease(ProcOf(t))
  /\ Cardinality({ProcOf(t) : t \in {u \in Threads : CycleWork(u)}}) <= 1

\* C3: once a tick that acquired the lease has returned (no tick of the
\* process is between acquireLease and releaseLease any more), its heartbeat
\* timer is stopped and the lock row owned by the process has no
\* leaseExpiresAt in the future.
C3_ReleasedAfterTick ==
  \A p \in Procs :
    (\A t \in ThreadsOf(p) : pc[t] \notin HoldingPcs)
      => /\ \A t \in ThreadsOf(p) : hbAt[t] = NoTime
         /\ ~HoldsLease(p)

\* C39: once shutdown() of a process has run, no tick of that process
\* starts, and a lock row owned by the process never gets a leaseExpiresAt
\* in the future.
C39_ShutdownStopsScheduler ==
  [][\A p \in SoloProcs :
       isShuttingDown[p] =>
         /\ \A t \in ThreadsOf(p) : pc[t] = "idle" => pc'[t] = "idle"
         /\ OwnedBy(lock', p) => lock'.leaseExpiresAt <= clock']_vars

\* C34: when no tick of a process is between acquireLease and releaseLease
\* and the lock row of the process is released (leaseExpiresAt not in the
\* future), a refreshLease of that process that the store applies now does
\* not move leaseExpiresAt into the future.
C34_LateRefreshKeepsRelease ==
  [][\A t \in Threads :
       (/\ refresh[t] # NoTime /\ refresh'[t] = NoTime
        /\ \A u \in ThreadsOf(ProcOf(t)) : pc[u] \notin HoldingPcs
        /\ OwnedBy(lock, ProcOf(t)) /\ lock.leaseExpiresAt <= clock) =>
         lock'.leaseExpiresAt <= clock]_vars

\* C4 as stated: a tick at whose start the lock row was owned by another
\* owner with leaseExpiresAt in the future returns lease_not_acquired
\* without having acquired, and the running flag is false afterwards.
C4_AsStated ==
  (ret.result # "none" /\ ret.entry.held)
    => /\ ret.result = "lease_not_acquired"
       /\ ~ret.acquired
       /\ ~isRunning[ProcOf(ret.thread)]

\* C4: a tick past the running-flag check whose acquireLease finds, at a
\* store access, the lock row owned by another owner with leaseExpiresAt not
\* earlier than its 'now' does not acquire: that access leaves the lock row,
\* the AlertEvents and the TriageRuns unchanged and starts no cycle, and when
\* the tick returns it returns lease_not_acquired with the running flag
\* false.
C4_HeldLeaseIsNotAcquired ==
  [][\A t \in Threads :
       (pc[t] \in AcquirePcs /\ pc'[t] # pc[t] /\ HeldAgainst(t))
         => /\ lock' = lock /\ events' = events /\ runs' = runs
            /\ cpc'[t] = "none" /\ hbAt'[t] = NoTime
            /\ pc'[t] \in {"acq_find", "idle"}
            /\ pc'[t] = "idle"
                 => /\ ret'.thread = t
                    /\ ret'.result = "lease_not_acquired"
                    /\ ~isRunning'[ProcOf(t)]]_vars

\* a tick has returned lease_not_acquired to a process while another owner
\* holds the lease, as it did when the tick started
C4_Witness ==
  /\ ret.result = "lease_not_acquired"
  /\ ret.entry.held
  /\ lock.exists /\ lock.ownerId # ProcOf(ret.thread)
  /\ lock.leaseExpiresAt > clock

\* C5: within one process at most one runSchedulerTick is past the
\* running-flag check at any time.
C5_OneTickPerProcess ==
  \A p \in Procs : Cardinality({t \in ThreadsOf(p) : pc[t] # "idle"}) <= 1

\* C6: whenever no runSchedulerTick call is executing in a process, the
\* process's isRunning flag is false.
C6_FlagClearWhenIdle ==
  \A p \in Procs : (\A t \in ThreadsOf(p) : pc[t] = "idle") => ~isRunning[p]

\* C7: at most one AlertEvent exists for any (monitorId,
\* overallStateModified) pair.
C7_OneEventPerAlert == \A k \in Alerts : events[k] <= 1

\* C8: once a TriageRun is complete or failed, no operation changes its
\* status again.
C8_StatusChangesOnce ==
  [][\A r \in DOMAIN runs :
       runs[r].status # "running" => runs'[r].status = runs[r].status]_vars

\* C9: for every configured lease duration, while a tick is between its
\* successful acquireLease and its releaseLease, the lock row is owned by its
\* process and leaseExpiresAt lies in the future.
C9_LeaseStaysInFuture ==
  \A t \in Threads : pc[t] \in HoldingPcs => HoldsLease(ProcOf(t))

\* C10: a cron-driven tick that starts when the stored lastRunAt is older
\* than the interval runs min(maxCatchup, ceil(gap / interval)) cycles, which
\* is more than one.
C10_CronCatchesUp ==
  \A t \in Threads :
    (pc[t] = "await" /\ entry[t].by = "cron" /\ entry[t].expect > 1)
      => backlog[t] = entry[t].expect

\* C28: no invocation of runSchedulerTick ends by throwing to its caller,
\* also when a store call it makes fails: it ends with a returned result
C28_TickNeverThrows == ret.result # "threw"

\* C29: a tick that is skipped because a tick of the process is already
\* running leaves SchedulerState.lastRunAt as it was: lastRunAt is written
\* only when a cycle starts
C29_SkippedTickKeepsLastRunAt ==
  [][(ret'.result = "already_running" /\ ticks' # ticks)
       => lastRunAt' = lastRunAt]_vars

----------------------------------------------------------------------------
(* The catch-up arithmetic on its own: one process, a manual tick over a
   stored lastRunAt, interval and catch-up cap drawn from the sets below; no
   time passes, so every cycle of the tick runs to its end *)

LateClock == TimeStep * 200
Gaps == {0 - TimeStep, 0, 1, TimeStep - 1, TimeStep, TimeStep + 1,
         2 * TimeStep - 1, 2 * TimeStep, 2 * TimeStep + 1, 3 * TimeStep,
         DefaultIntervalMs - 1, DefaultIntervalMs, DefaultIntervalMs + 1,
         2 * DefaultIntervalMs - 1, 2 * DefaultIntervalMs, 2 * DefaultIntervalMs + 1,
         4 * DefaultIntervalMs + 1, 5 * DefaultIntervalMs, 5 * DefaultIntervalMs + 1,
         650000}
Schedules == {<<IntervalMs, 1>>, <<IntervalMs, MaxCatchup>>,
              <<DefaultIntervalMs, DefaultMaxCatchup>>}

InitBacklog ==
  /\ clock = LateClock
  /\ ev = NoEvidence
  /\ prov = NoProvider
  /\ tr = NoTruncate
  /\ \E s \in Schedules : intervalMs = s[1] /\ maxCatchup = s[2]
  /\ InitIdle({DefaultLeaseMs}, {NoTime} \cup {LateClock - g : g \in Gaps}, {<<>>})
NextBacklog ==
  \/ \E t \in SoloThreads : TriggerRun(t)
  \/ \E t \in SoloThreads :
       \/ StaleFind(t) \/ AcquireUpdate(t) \/ AcquireFind(t) \/ AcquireCreate(t)
       \/ ReadState(t) \/ CycleStart(t) \/ CycleCollect(t) \/ CycleSuccess(t)
       \/ Release(t)
SpecBacklog == InitBacklog /\ [][NextBacklog]_vars

\* the tick has computed its backlog and its first cycle has not yet written
\* lastRunAt
BacklogRead(t) == pc[t] = "await" /\ cycleNo[t] = 0 /\ cpc[t] = "start"

\* n = min(cap, ceil(gap / interval)), for gap > interval
CatchupCycles(gap, interval, cap, n) ==
  \/ n = cap /\ gap > (cap - 1) * interval
  \/ n < cap /\ (n - 1) * interval < gap /\ gap <= n * interval

\* C11: a lease-holding tick runs min(maxCatchup, ceil(gap / interval)) cycles
\* when a lastRunAt is recorded and gap = now - lastRunAt exceeds the interval,
\* and exactly one cycle otherwise; with maxCatchup 5 and interval 60000 a gap
\* of 650000 gives 5 cycles
C11_CatchupCycles ==
  \A t \in Threads :
    /\ BacklogRead(t) =>
         LET gap == now[t] - lastRunAt
         IN /\ IF lastRunAt # NoTime /\ gap > intervalMs
                 THEN CatchupCycles(gap, intervalMs, maxCatchup, backlog[t])
                 ELSE backlog[t] = 1
            /\ (intervalMs = 60000 /\ maxCatchup = 5 /\ gap = 650000)
                 => backlog[t] = 5
    /\ pc[t] = "release_ok" => cycleNo[t] = backlog[t]
C11_Witness ==
  \E t \in Threads :
    /\ pc[t] = "release_ok" /\ cycleNo[t] = 5
    /\ intervalMs = 60000 /\ maxCatchup = 5
    /\ entry[t].expect = 5

----------------------------------------------------------------------------
(* One service instance whose monitoring source reports two alerting
   monitors; providers may fail and store calls of processAlert and
   runTriage may throw; the per-cycle timeout may fire while the cycle is at
   work *)

InitAlerts == InitWith({DefaultLeaseMs}, {NoTime}, {<<"a", "b">>})
NextAlerts ==
  \/ Advance(MaxSteps)
  \/ \E t \in ReentryThreads : HandleCron(t)
  \/ \E t \in Threads : LeaseStep(t)
  \/ \E t \in Threads : RunStep(t)
  \/ \E t \in Threads : AlertStep(t)
  \/ \E r \in RunIds : ProviderCompletes(r)
  \/ \E r \in RunIds : ProviderFails(r)
  \/ \E r \in RunIds : CompleteThrows(r)
  \/ \E r \in RunIds : FailRunThrows(r)
  \/ \E t \in Threads : ProcessAlertThrows(t)
  \/ \E t \in Threads : CycleCatch(t)
SpecAlerts == InitAlerts /\ [][NextAlerts]_vars

\* the cycle of t goes on although withTimeout has already rejected for it
Abandoned(t) == cpc[t] # "none" /\ ~awaited[t]

\* the tick of t is still in its catch / finally, and a run was created during
\* the tick before its first cycle's timeout was due: the timeout fired after
\* the cycle had begun to work through its alert list
TimedOutAtWork(t) ==
  /\ Abandoned(t) /\ now[t] # NoTime
  /\ \E r \in RunIds : /\ runs[r].createdAt >= now[t]
                       /\ runs[r].createdAt < now[t] + RunOnceTimeoutMs

\* C12: once the per-cycle timeout has fired for a cycle that is working
\* through its alert list, no further alert of that cycle starts being
\* processed
C12_NoAlertAfterTimeout ==
  [][\A t \in Threads : (TimedOutAtWork(t) /\ cpc[t] = "enrich") => cpc'[t] # "triage"]_vars

\* the step in which the updateMany of t's failStaleRuns reaches the store
SweepWrites(t) == pc[t] = "stale_upd" /\ pc'[t] # "stale_upd"

\* C14: the stale-run sweep at the start of a tick marks failed, with a
\* 'Timed out' error, every run that is running and older than the threshold,
\* and leaves every other run (not running, or younger) unchanged
C14_SweepFailsOnlyStaleRuns ==
  [][\A t \in Threads : SweepWrites(t) =>
       \A r \in RunIds :
         IF r \in StaleIds(clock)
           THEN runs'[r].status = "failed" /\ runs'[r].error = "Timed out"
           ELSE runs'[r] = runs[r]]_vars

----------------------------------------------------------------------------
(* One service instance that keeps ticking: the cron schedule has no end,
   time passes, and every step of a tick or cycle that can be taken is
   taken; a provider call may never return, and a store call may throw *)

\* @Cron(EVERY_MINUTE): the schedule goes on
CronRearm ==
  /\ ticks = MaxTicks
  /\ ticks' = 0
  /\ ret' = NoRet
  /\ UNCHANGED <<clock, cfgVars, storeVars, procVars, tickVars, cycleVars, refresh,
                 reproc, faults>>

TickStep(t) == LeaseStep(t) \/ RunStep(t) \/ ProcessAlert(t)

InitLive == InitWith({DefaultLeaseMs}, {NoTime}, {<<"a">>})
NextLive ==
  \/ Advance(MaxSteps)
  \/ CronRearm
  \/ \E t \in ReentryThreads : HandleCron(t)
  \/ \E t \in Threads : TickStep(t)
  \/ \E t \in Threads : FaultStep(t)
  \/ \E r \in RunIds : ProviderCompletes(r)
  \/ \E r \in RunIds : ProviderFails(r)
Ticking ==
  /\ SF_vars(Advance(MaxSteps))
  /\ WF_vars(CronRearm)
  /\ SF_vars(\E t \in ReentryThreads : HandleCron(t))
  /\ \A t \in ReentryThreads : WF_vars(TickStep(t))
SpecLive == InitLive /\ [][NextLive]_vars /\ Ticking

\* a run created early enough for the clock of the model to pass its stale
\* threshold
SweepableRun(r) == r \in RunIds /\ runs[r].createdAt = InitClock

CycleEnds(t) == cpc[t] \notin {"none", "start"} /\ cpc'[t] \in {"none", "start"}

\* C18: within one cycle a failure while processing one alert, whatever its
\* cause, does not keep the alerts after it from being processed: when the
\* cycle ends no collected alert is left over
C18_LaterAlertsStillProcessed ==
  [][\A t \in Threads : CycleEnds(t) => queue'[t] = <<>>]_vars

\* C19: a TriageRun is complete, with the provider's report stored, exactly
\* when its provider.run has resolved; when provider.run has rejected the run
\* is failed with the provider's error in its error field
C19_StatusFollowsProvider ==
  \A r \in RunIds :
    /\ runs[r].outcome = "resolved" => runs[r].status = "complete" /\ runs[r].report
    /\ runs[r].status = "complete" => runs[r].outcome = "resolved"
    /\ runs[r].outcome = "rejected" =>
         runs[r].status = "failed" /\ runs[r].error = "provider"

----------------------------------------------------------------------------
(* gatherEvidence: the evidence steps in order, each through runStep, then
   the heuristic rules and the similar-incident lookup.  A call is looked at
   on its own; its inputs are which repository the alert resolves to, which
   command-line tools are installed and whether credentials are configured *)

MaxThrows == 2

StepIds == <<"clone-repo", "repo-status", "repo-scan", "repo-diff", "github-prs",
             "k8s-state", "k8s-rollout", "k8s-graph", "datadog-logs", "runbook",
             "confluence", "jira">>
Tools == {"rg", "gh", "kubectl"}
Repos == {"path", "url", "none"}

\* if (!repoPath) return { summary: 'Repo path not found; skipping ...' }
NeedsRepo == {"repo-status", "repo-scan", "repo-diff", "github-prs"}
\* if (!(await hasCommand(tool))) return { summary: '... not available; skipping ...' }
ToolOf(id) ==
  CASE id = "repo-scan" -> "rg"
    [] id = "github-prs" -> "gh"
    [] id \in {"k8s-state", "k8s-rollout", "k8s-graph"} -> "kubectl"
    [] OTHER -> "none"
\* if (!apiKey || !appKey) / if (!baseUrl || !user || !token) return { summary: '... missing; skipping ...' }
NeedsCreds == {"datadog-logs", "confluence", "jira"}

\* the summary with which the step function returns early, "none" when every
\* prerequisite of the step is there
MissingSummary(id, e) ==
  IF id \in NeedsRepo /\ ~e.repoPath THEN "not found"
  ELSE IF ToolOf(id) # "none" /\ ToolOf(id) \notin e.env.tools THEN "not available"
  ELSE IF id \in NeedsCreds /\ ~e.env.creds THEN "missing"
  ELSE "none"

RecordStepInFront(steps, id) ==
  <<[id |-> id, status |-> "skipped", summary |-> "none", artifacts |-> {}]>> \o steps

\* recordStep({ id, title, status: 'skipped', startedAt })
RecordStep(steps, id) ==
  Append(steps, [id |-> id, status |-> "skipped", summary |-> "none",
                 artifacts |-> {}])

\* updateStep(step, { status, finishedAt, summary })
UpdateStep(steps, status, summary) ==
  [steps EXCEPT ![Len(steps)] = [@ EXCEPT !.status = status, !.summary = summary]]

OnThrowStepUntouched(steps, message) == steps
\* runStep's catch: updateStep(step, { status: 'error', summary: errMsg })
OnThrow(steps, message) == UpdateStep(steps, "error", message)

\* if (!repoPath && params.alert.repoUrl) await runStep('clone-repo', ...)
FirstStep(env) == IF env.repo = "url" THEN 1 ELSE 2

\* the scheduler's variables, which gatherEvidence does not touch
serviceVars == <<clock, leaseMs, feed, intervalMs, maxCatchup, prov, tr, storeVars, procVars,
                 tickVars, cycleVars, refresh, reproc, faults, ticks, ret>>

\* after step number ev.at: the next step, or on to the heuristic rules
AfterStep == IF ev.at = Len(StepIds) THEN "heuristics" ELSE "step"

\* runStep up to 'await fn()'
StepStarts ==
  /\ ev.phase = "step"
  /\ ev' = [ev EXCEPT !.steps = RecordStep(ev.steps, StepIds[ev.at]), !.phase = "fn"]
  /\ UNCHANGED serviceVars

\* the artifactKey of the result with which the step function returns when
\* every prerequisite is there
ArtifactKey(id) ==
  CASE id = "repo-status" -> "git_history"
    [] id = "repo-scan" -> "repo_scan"
    [] id = "repo-diff" -> "repo_diff"
    [] id = "github-prs" -> "github_prs"
    [] id = "k8s-state" -> "k8s_state"
    [] id = "k8s-rollout" -> "k8s_rollout"
    [] id = "k8s-graph" -> "k8s_graph"
    [] id = "datadog-logs" -> "datadog_logs"
    [] id = "runbook" -> "runbook"
    [] id = "confluence" -> "confluence"
    [] id = "jira" -> "jira"
    [] OTHER -> "none"

\* updateStep(step, { ..., artifacts: result.artifactKey ? [result.artifactKey]
\* : undefined })
ListArtifacts(steps, key) ==
  [steps EXCEPT ![Len(steps)].artifacts = IF key = "none" THEN {} ELSE {key}]

\* if (result.output && result.artifactKey) artifacts[result.artifactKey] =
\* truncate(result.output)
StoreArtifact(stored, key, output) ==
  IF output /\ key # "none" THEN stored \cup {key} ELSE stored

\* fn resolves: with a 'skipping' summary when a prerequisite is missing;
\* clone-repo sets repoPath only when it cloned; the output of repo-scan is
\* the empty string when rg matched nothing
StepReturns ==
  /\ ev.phase = "fn"
  /\ LET id == StepIds[ev.at]
         m == MissingSummary(id, ev)
         key == IF m = "none" THEN ArtifactKey(id) ELSE "none"
     IN \E cloned, output \in BOOLEAN :
          /\ cloned => id = "clone-repo"
          /\ ~output => id = "repo-scan" /\ m = "none"
          /\ ev' = [ev EXCEPT !.steps = ListArtifacts(
                                          UpdateStep(ev.steps, "ok",
                                                     IF m = "none" THEN "done" ELSE m),
                                          key),
                              !.artifacts = StoreArtifact(ev.artifacts, key, output),
                              !.repoPath = ev.repoPath \/ cloned,
                              !.at = ev.at + 1,
                              !.phase = AfterStep]
  /\ UNCHANGED serviceVars

\* fn throws (it has passed its prerequisite checks)
StepThrows ==
  /\ ev.phase = "fn"
  /\ MissingSummary(StepIds[ev.at], ev) = "none"
  /\ Cardinality(ev.thrown) < MaxThrows
  /\ ev' = [ev EXCEPT !.steps = OnThrow(ev.steps, "message"),
                      !.thrown = ev.thrown \cup {StepIds[ev.at]},
                      !.at = ev.at + 1,
                      !.phase = AfterStep]
  /\ UNCHANGED serviceVars

\* loadHeuristics and the matching of its patterns go through
HeuristicsLoaded ==
  /\ ev.phase = "heuristics"
  /\ ev' = [ev EXCEPT !.phase = "similar"]
  /\ UNCHANGED serviceVars

\* readFileSync / yaml.parse throws, or a pattern has no trigger
HeuristicsThrow ==
  /\ ev.phase = "heuristics"
  /\ ev' = [ev EXCEPT !.phase = "done", !.result = "threw"]
  /\ UNCHANGED serviceVars

\* const similarIncidents = await params.findSimilar(); return { steps, ... }
FindSimilarReturns ==
  /\ ev.phase = "similar"
  /\ ev' = [ev EXCEPT !.phase = "done", !.result = "bundle"]
  /\ UNCHANGED serviceVars

\* params.findSimilar() rejects
FindSimilarThrows ==
  /\ ev.phase = "similar"
  /\ ev' = [ev EXCEPT !.phase = "done", !.result = "threw"]
  /\ UNCHANGED serviceVars

InitEvidence ==
  /\ clock = InitClock
  /\ prov = NoProvider
  /\ tr = NoTruncate
  /\ intervalMs = IntervalMs
  /\ maxCatchup = MaxCatchup
  /\ InitIdle({DefaultLeaseMs}, {NoTime}, {<<>>})
  /\ \E repo \in Repos, tools \in SUBSET Tools, creds \in BOOLEAN :
       LET env == [repo |-> repo, tools |-> tools, creds |-> creds]
       IN ev = [env |-> env, phase |-> "step", at |-> FirstStep(env), steps |-> <<>>,
                repoPath |-> (repo = "path"), thrown |-> {}, result |-> "none",
                artifacts |-> {}]
NextEvidence ==
  \/ StepStarts
  \/ StepReturns
  \/ StepThrows
  \/ HeuristicsLoaded
  \/ HeuristicsThrow
  \/ FindSimilarReturns
  \/ FindSimilarThrows
SpecEvidence == InitEvidence /\ [][NextEvidence]_vars

\* the steps gatherEvidence runs for its parameters
Pipeline(env) == SubSeq(StepIds, FirstStep(env), Len(StepIds))

\* C15: whichever steps throw, the bundle gatherEvidence returns has all the
\* steps of the pipeline, in order; each step that threw has status error
\* and the error message as summary, every other step has the status of a
\* step that returned, and the steps after a throwing step were still run
C15_ThrowingStepsAreIsolated ==
  ev.result = "bundle" =>
    /\ Len(ev.steps) = Len(Pipeline(ev.env))
    /\ \A i \in DOMAIN ev.steps :
         /\ ev.steps[i].id = Pipeline(ev.env)[i]
         /\ IF ev.steps[i].id \in ev.thrown
              THEN ev.steps[i].status = "error" /\ ev.steps[i].summary = "message"
              ELSE ev.steps[i].status = "ok"
C15_Witness ==
  /\ ev.result = "bundle"
  /\ Cardinality(ev.thrown) = 2
  /\ \E i, j \in DOMAIN ev.steps :
       i < j /\ ev.steps[i].status = "error" /\ ev.steps[j].status = "ok"

\* C16: gatherEvidence never throws, whatever fails: a step, the loading or
\* matching of the heuristic rules, or the similar-incident lookup
C16_GatherEvidenceNeverThrows == ev.result # "threw"

\* C17: a step whose prerequisite is missing (no repository path, a tool not
\* installed, no credentials) ends with status skipped and a summary that
\* says what is missing
C17_MissingPrerequisiteIsSkipped ==
  ev.result = "bundle" =>
    \A i \in DOMAIN ev.steps :
      LET m == MissingSummary(ev.steps[i].id, ev)
      IN m # "none" => ev.steps[i].status = "skipped" /\ ev.steps[i].summary = m

\* C27: at every moment of a gatherEvidence call the steps recorded so far
\* are the first steps of the declared order (clone-repo only when there is
\* a repository URL and no local path, then repo-status, repo-scan,
\* repo-diff, github-prs, k8s-state, k8s-rollout, k8s-graph, datadog-logs,
\* runbook, confluence, jira), and every step but the last recorded one has
\* finished, with status ok or error, before the next one was started
C27_StepsRunInDeclaredOrder ==
  ev.phase # "idle" =>
    /\ Len(ev.steps) <= Len(Pipeline(ev.env))
    /\ \A i \in DOMAIN ev.steps :
         /\ ev.steps[i].id = Pipeline(ev.env)[i]
         /\ (i < Len(ev.steps) \/ ev.phase # "fn") => ev.steps[i].status # "skipped"
         /\ (i = Len(ev.steps) /\ ev.phase = "fn") => ev.steps[i].status = "skipped"
    /\ ev.phase \in {"heuristics", "similar", "done"}
         => Len(ev.steps) = Len(Pipeline(ev.env))

\* clone-repo came first and has thrown, repo-status has returned, and
\* repo-scan is the one step under way
C27_Witness ==
  /\ ev.phase = "fn" /\ Len(ev.steps) = 3
  /\ ev.steps[1].id = "clone-repo" /\ ev.steps[1].status = "error"
  /\ ev.steps[2].id = "repo-status" /\ ev.steps[2].status = "ok"
  /\ ev.steps[3].id = "repo-scan" /\ ev.steps[3].status = "skipped"

----------------------------------------------------------------------------
(* truncate(value, max), which runStep applies to the output of a step.  A
   string is the sequence of its characters; the call is looked at on its
   own, for every string over two characters up to MaxLen and every limit
   from 0 to one more than MaxLen *)

Chars == {"x", "y"}
Digit == <<"0", "1", "2", "3", "4", "5", "6", "7", "8", "9">>

\* `${n}` for n >= 0
RECURSIVE Decimal(_)
Decimal(n) ==
  IF n < 10 THEN <<Digit[n + 1]>>
  ELSE Append(Decimal(n \div 10), Digit[(n % 10) + 1])

\* "\n...[truncated " and " chars]"
MarkerHead == <<"\n", ".", ".", ".", "[", "t", "r", "u", "n", "c", "a", "t", "e",
                "d", " ">>
MarkerTail == <<" ", "c", "h", "a", "r", "s", "]">>

\* value.slice(0, max), max >= 0
Slice(value, max) == SubSeq(value, 1, Min(max, Len(value)))

TruncateStatesLength(value, max) ==
  IF Len(value) <= max THEN value
  ELSE Slice(value, max) \o MarkerHead \o Decimal(Len(value)) \o MarkerTail

\* if (value.length <= max) return value;
\* return `${value.slice(0, max)}\n...[truncated ${value.length - max} chars]`
Truncate(value, max) ==
  IF Len(value) <= max THEN value
  ELSE Slice(value, max) \o MarkerHead \o Decimal(Len(value) - max) \o MarkerTail

\* everything but the truncate call
otherVars == <<clock, leaseMs, feed, intervalMs, maxCatchup, ev, prov, storeVars,
               procVars, tickVars, cycleVars, refresh, reproc, faults, ticks, ret>>

TruncateReturns ==
  /\ tr.phase = "called"
  /\ tr' = [tr EXCEPT !.phase = "returned", !.result = Truncate(tr.value, tr.max)]
  /\ UNCHANGED otherVars

Strings == UNION {[1..n -> Chars] : n \in 0..MaxLen}
Limits == 0..(MaxLen + 1)
InitTruncate ==
  /\ clock = InitClock
  /\ ev = NoEvidence
  /\ prov = NoProvider
  /\ intervalMs = IntervalMs
  /\ maxCatchup = MaxCatchup
  /\ InitIdle({DefaultLeaseMs}, {NoTime}, {<<>>})
  /\ \E value \in Strings, max \in Limits :
       tr = [phase |-> "called", value |-> value, max |-> max, result |-> <<>>]
NextTruncate == TruncateReturns
SpecTruncate == InitTruncate /\ [][NextTruncate]_vars

\* the number a sequence of decimal digits states, -1 if it is not one
DigitValue(c) == IF \E d \in 1..10 : Digit[d] = c
                   THEN (CHOOSE d \in 1..10 : Digit[d] = c) - 1 ELSE 0 - 1
RECURSIVE Stated(_)
Stated(digits) ==
  IF digits = <<>> THEN 0 - 1
  ELSE IF DigitValue(digits[Len(digits)]) < 0 THEN 0 - 1
  ELSE IF Len(digits) = 1 THEN DigitValue(digits[1])
  ELSE LET front == Stated(SubSeq(digits, 1, Len(digits) - 1))
       IN IF front < 0 THEN 0 - 1 ELSE front * 10 + DigitValue(digits[Len(digits)])

\* C30: truncate(value, max) returns value itself when value.length <= max;
\* otherwise the result is the first max characters of value followed by
\* the marker "\n...[truncated N chars]" and nothing else, so it is max plus
\* the length of the marker long, and the N the marker states is
\* value.length - max
C30_TruncateMarksWhatItCut ==
  tr.phase = "returned" =>
    IF Len(tr.value) <= tr.max THEN tr.result = tr.value
    ELSE LET marker == SubSeq(tr.result, tr.max + 1, Len(tr.result))
             digits == SubSeq(marker, Len(MarkerHead) + 1,
                              Len(marker) - Len(MarkerTail))
         IN /\ Len(tr.result) >= tr.max + Len(MarkerHead) + 1 + Len(MarkerTail)
            /\ SubSeq(tr.result, 1, tr.max) = SubSeq(tr.value, 1, tr.max)
            /\ SubSeq(marker, 1, Len(MarkerHead)) = MarkerHead
            /\ SubSeq(marker, Len(marker) - Len(MarkerTail) + 1, Len(marker)) = MarkerTail
            /\ Stated(digits) = Len(tr.value) - tr.max

\* a string of MaxLen characters has been cut to its first character
C30_Witness ==
  /\ tr.phase = "returned"
  /\ Len(tr.value) = MaxLen /\ tr.max = 1 /\ Len(tr.result) > 1
  /\ tr.result[1] = tr.value[1]

\* C40: in the bundle gatherEvidence returns, every artifact key listed by a
\* step is a key of the bundle's artifacts map.
C40_ListedArtifactsAreStored ==
  ev.result = "bundle" =>
    \A i \in DOMAIN ev.steps : ev.steps[i].artifacts \subseteq ev.artifacts

----------------------------------------------------------------------------
(* provider.run of the codex and opencode providers: the child process, its
   timeout timer and kill timer.  A call is looked at on its own; time moves
   in steps of a third of the kill grace window and a due timer fires before
   time moves on *)

KillGraceMs == 3000
MaxProviderSteps == 12

ProviderStepMs == KillGraceMs \div 3
TimeoutChoices == {2 * ProviderStepMs, 4 * ProviderStepMs}

\* everything but the clock and the provider call
hostVars == <<leaseMs, feed, intervalMs, maxCatchup, ev, tr, storeVars, procVars,
              tickVars, cycleVars, refresh, reproc, faults, ticks, ret>>

\* runCodex(withModel): if (withModel && this.model) args.push('--model', ...);
\* spawn(this.bin, args, ...); const timeout = setTimeout(..., timeoutMs)
Spawned(at, timeoutMs, modelArg) ==
  [state |-> "running", timerAt |-> at + timeoutMs, killAt |-> NoTime,
   signals |-> <<>>, promise |-> "pending", error |-> "none",
   modelArg |-> modelArg, code |-> "none"]

\* a promise that a later resolve() settles again
ResolvesAgain(p, c) ==
  [p EXCEPT !.children[c].promise = "resolved",
            !.result = "resolved", !.settledAt = clock]

\* the promise of attempt c is resolved: run() goes on to read the report
Resolves(p, c) ==
  IF p.children[c].promise # "pending" THEN p
  ELSE [p EXCEPT !.children[c].promise = "resolved",
                 !.result = "resolved", !.settledAt = clock]

\* the promise of attempt c is rejected.  codex: catch (error) { if
\* (this.allowFallback && this.model) await runCodex(false); else throw error }
RejectsAlwaysRetries(p, c, why) ==
  IF p.children[c].promise # "pending" THEN p
  ELSE IF p.kind = "codex" /\ c = 1
    THEN [p EXCEPT !.children =
            Append([p.children EXCEPT ![c].promise = "rejected", ![c].error = why],
                   Spawned(clock, p.timeoutMs, FALSE))]
    ELSE [p EXCEPT !.children[c].promise = "rejected", !.children[c].error = why,
                   !.result = why, !.thrownBy = c, !.settledAt = clock]

Rejects(p, c, why) ==
  IF p.children[c].promise # "pending" THEN p
  ELSE IF p.kind = "codex" /\ p.allowFallback /\ p.model /\ c = 1
    THEN [p EXCEPT !.children =
            Append([p.children EXCEPT ![c].promise = "rejected", ![c].error = why],
                   Spawned(clock, p.timeoutMs, FALSE))]
    ELSE [p EXCEPT !.children[c].promise = "rejected", !.children[c].error = why,
                   !.result = why, !.thrownBy = c, !.settledAt = clock]

\* the timeout timer: child.kill('SIGTERM'); setTimeout(() =>
\* child.kill('SIGKILL'), 3_000); reject(new Error('... timed out ...'))
TimeoutFires(c) ==
  /\ c \in DOMAIN prov.children
  /\ prov.children[c].timerAt # NoTime /\ prov.children[c].timerAt <= clock
  /\ LET sent == IF prov.children[c].state = "running"
                   THEN Append(prov.children[c].signals, <<"SIGTERM", clock>>)
                   ELSE prov.children[c].signals
         p == [prov EXCEPT !.children[c].timerAt = NoTime,
                           !.children[c].killAt = clock + KillGraceMs,
                           !.children[c].signals = sent]
     IN prov' = Rejects(p, c, "timeout")
  /\ UNCHANGED <<clock, hostVars>>

\* the kill timer: child.kill('SIGKILL'); the child is gone, 'close' fires
\* (clearTimeout; the promise is already rejected)
KillFires(c) ==
  /\ c \in DOMAIN prov.children
  /\ prov.children[c].killAt # NoTime /\ prov.children[c].killAt <= clock
  /\ prov' = [prov EXCEPT
       !.children[c].killAt = NoTime,
       !.children[c].state = "exited",
       !.children[c].code = IF prov.children[c].state = "running"
                              THEN "signal" ELSE prov.children[c].code,
       !.children[c].signals =
          IF prov.children[c].state = "running"
            THEN Append(prov.children[c].signals, <<"SIGKILL", clock>>)
            ELSE prov.children[c].signals]
  /\ UNCHANGED <<clock, hostVars>>

\* child.on('close', code): the child ends of its own accord (also in answer
\* to SIGTERM); clearTimeout(timeout); code 0 resolves, any other rejects
ChildCloses(c, ok) ==
  /\ c \in DOMAIN prov.children
  /\ prov.children[c].state = "running"
  /\ LET p == [prov EXCEPT !.children[c].state = "exited",
                           !.children[c].code = IF ok THEN "zero" ELSE "nonzero",
                           !.children[c].timerAt = NoTime,
                           !.selfExit = TRUE]
     IN prov' = IF ok THEN Resolves(p, c) ELSE Rejects(p, c, "exit")
  /\ UNCHANGED <<clock, hostVars>>

ProviderTimerDue ==
  \E c \in DOMAIN prov.children :
    \/ prov.children[c].timerAt # NoTime /\ prov.children[c].timerAt <= clock
    \/ prov.children[c].killAt # NoTime /\ prov.children[c].killAt <= clock

ProviderTick ==
  /\ ~ProviderTimerDue
  /\ clock < prov.startedAt + MaxProviderSteps * ProviderStepMs
  /\ clock' = clock + ProviderStepMs
  /\ UNCHANGED <<prov, hostVars>>

Attempts == {1, 2}
InitProvider ==
  /\ clock = InitClock
  /\ intervalMs = IntervalMs
  /\ maxCatchup = MaxCatchup
  /\ ev = NoEvidence
  /\ tr = NoTruncate
  /\ InitIdle({DefaultLeaseMs}, {NoTime}, {<<>>})
  /\ \E kind \in {"codex", "opencode"}, allowFallback \in BOOLEAN,
        model \in BOOLEAN, ms \in TimeoutChoices :
       /\ kind = "opencode" => ~allowFallback /\ ~model
       /\ prov = [kind |-> kind, allowFallback |-> allowFallback, model |-> model,
                  timeoutMs |-> ms, startedAt |-> clock,
                  children |-> <<Spawned(clock, ms, model)>>,
                  selfExit |-> FALSE, result |-> "pending", thrownBy |-> 0,
                  settledAt |-> NoTime]
NextProvider ==
  \/ ProviderTick
  \/ \E c \in Attempts : TimeoutFires(c)
  \/ \E c \in Attempts : KillFires(c)
  \/ \E c \in Attempts, ok \in BOOLEAN : ChildCloses(c, ok)
SpecProvider == InitProvider /\ [][NextProvider]_vars

\* C20: if the provider's child process never exits of its own accord, the
\* timeout timer sends it SIGTERM, SIGKILL follows after the 3 s grace
\* window, and the provider run has failed with a timeout error no later
\* than timeoutMs plus the grace window after the provider was started
C20_HungProviderFailsInTime ==
  (prov.kind # "none" /\ ~prov.selfExit) =>
    LET due == prov.startedAt + prov.timeoutMs
    IN /\ clock > due =>
            /\ Len(prov.children[1].signals) >= 1
            /\ prov.children[1].signals[1] = <<"SIGTERM", due>>
       /\ clock > due + KillGraceMs =>
            /\ prov.children[1].signals =
                  <<(<<"SIGTERM", due>>), (<<"SIGKILL", due + KillGraceMs>>)>>
            /\ prov.result = "timeout"
            /\ prov.settledAt <= due + KillGraceMs

\* C21: CodexProvider makes at most two attempts; a second attempt exists
\* only if a model is configured, fallback is allowed and the first attempt
\* was rejected, and it is started without the model argument; if the second
\* attempt is rejected too, its error is the one run() throws; with no model
\* or with fallback disabled the first rejection is thrown and nothing is
\* retried
C21_RetriesAtMostOnce ==
  prov.kind = "codex" =>
    /\ Len(prov.children) <= 2
    /\ Len(prov.children) = 2 =>
         /\ prov.model /\ prov.allowFallback
         /\ prov.children[1].promise = "rejected"
         /\ prov.children[1].modelArg /\ ~prov.children[2].modelArg
         /\ prov.children[2].promise = "rejected" =>
              prov.thrownBy = 2 /\ prov.result = prov.children[2].error
         /\ prov.children[2].promise = "resolved" => prov.result = "resolved"
    /\ (~prov.model \/ ~prov.allowFallback) /\ prov.children[1].promise = "rejected" =>
         /\ Len(prov.children) = 1
         /\ prov.thrownBy = 1 /\ prov.result = prov.children[1].error

\* C37: at most one child process of a provider run is alive at any time.
C37_OneChildAlive ==
  Cardinality({c \in DOMAIN prov.children : prov.children[c].state = "running"}) <= 1

\* both attempts of a provider with a model and fallback have failed, the
\* first by its timeout and the second by its exit code
C21_Witness ==
  /\ prov.kind = "codex" /\ prov.model /\ prov.allowFallback
  /\ Len(prov.children) = 2
  /\ prov.children[1].error = "timeout"
  /\ prov.children[2].error = "exit"
  /\ prov.thrownBy = 2 /\ prov.result = "exit"

----------------------------------------------------------------------------
(* The lease protocol between instances *)

\* Two service instances, manually triggered, with any of the lease
\* durations; the lock row is absent or was left by an earlier tick of p1
\* (released at the start of the model's time, or force-cleared); an instance
\* may exit while it holds the lease.  The monitoring source reports nothing.
LockChoices == {NoLock, Lease("p1", InitClock), Lease("p1", Epoch)}
InitLease ==
  /\ clock = InitClock
  /\ ev = NoEvidence
  /\ prov = NoProvider
  /\ tr = NoTruncate
  /\ intervalMs = IntervalMs
  /\ maxCatchup = MaxCatchup
  /\ InitStore(LeaseChoices, {NoTime}, {<<>>}, LockChoices)
NextLease ==
  \/ Advance(MaxSteps)
  \/ \E t \in LeaseThreads : TriggerRun(t)
  \/ \E t \in Threads : LeaseStep(t)
  \/ \E p \in Procs : Crash(p)
SpecLease == InitLease /\ [][NextLease]_vars

\* C22: releaseLease by the owner leaves the lock row expired for every
\* acquirer, as leaseExpiresAt at the epoch does: an acquireLease of another
\* owner that reaches the store next succeeds with whatever 'now' it was
\* called
C22_ReleasedLeaseIsStealable ==
  [][\A t \in Threads :
       (pc[t] \in ReleasePcs /\ pc'[t] = "idle" /\ lock' # lock)
         => \A u \in Threads :
              (ProcOf(u) # ProcOf(t) /\ pc[u] = "acq_upd")
                => AcquireWhere(lock', ProcOf(u), now[u])]_vars

\* C23: an acquireLease of the process that owns the lock row succeeds at its
\* first store access, and a refreshLease of the owner sets leaseExpiresAt to
\* its 'now' plus the lease duration, never to an earlier time than the row
\* held, whatever the ticks of the other instance are doing
C23_OwnerReacquiresAndRenews ==
  [][\A t \in Threads :
       /\ (pc[t] = "acq_upd" /\ pc'[t] # "acq_upd" /\ OwnedBy(lock, ProcOf(t)))
            => /\ pc'[t] = "read"
               /\ lock' = Lease(ProcOf(t), now[t] + leaseMs)
       /\ (refresh[t] # NoTime /\ refresh'[t] = NoTime /\ pc'[t] # "crashed"
             /\ OwnedBy(lock, ProcOf(t)))
            => /\ lock' = Lease(ProcOf(t), refresh[t] + leaseMs)
               /\ lock'.leaseExpiresAt >= lock.leaseExpiresAt]_vars

\* the owner's heartbeat has moved the lease beyond what its acquireLease
\* wrote, while an acquireLease of the other instance is under way and has
\* been refused by its first update
C23_Witness ==
  \E t \in Threads, u \in Threads :
    /\ pc[t] = "await" /\ OwnedBy(lock, ProcOf(t))
    /\ lock.leaseExpiresAt > now[t] + leaseMs
    /\ ProcOf(u) # ProcOf(t) /\ pc[u] = "acq_find"

\* every tick of instance p is gone with its process
Crashed(p) == \A t \in ThreadsOf(p) : pc[t] = "crashed"

\* C24: once the process that owns the lock row has exited, an acquireLease
\* of another owner whose 'now' is later than the row's leaseExpiresAt (the
\* 'now' of the owner's last acquire or renewal plus the lease duration)
\* succeeds at its first store access
C24_DeadOwnersLeaseIsTaken ==
  [][\A u \in Threads :
       (/\ pc[u] = "acq_upd" /\ pc'[u] \notin {"acq_upd", "crashed"}
        /\ lock.exists /\ lock.ownerId # ProcOf(u)
        /\ Crashed(lock.ownerId)
        /\ now[u] > lock.leaseExpiresAt)
         => /\ pc'[u] = "read"
            /\ lock' = Lease(ProcOf(u), now[u] + leaseMs)]_vars

\* the owner exited while it held a lease that lay in the future, the lease
\* has run out, and an acquireLease of the other instance is at the store
C24_Witness ==
  \E u \in Threads :
    /\ pc[u] = "acq_upd"
    /\ lock.exists /\ lock.ownerId # ProcOf(u) /\ Crashed(lock.ownerId)
    /\ lock.leaseExpiresAt > InitClock
    /\ now[u] > lock.leaseExpiresAt

\* C25: when acquireLease calls of several owners find no lock row, the
\* first insert creates the row and that call returns true; every insert
\* that comes after it meets the unique constraint and its call returns
\* false without raising, leaving the row as it is; so exactly one of the
\* calls returns true
C25_InsertRaceHasOneWinner ==
  [][/\ lock.exists => lock'.exists
     /\ \A t \in Threads :
          (pc[t] = "acq_create" /\ pc'[t] # "acq_create")
            => IF lock.exists
                 THEN /\ lock' = lock
                      /\ pc'[t] = "idle" /\ faults' = faults
                      /\ ret'.thread = t /\ ret'.result = "lease_not_acquired"
                      /\ ~ret'.acquired
                 ELSE /\ pc'[t] = "read"
                      /\ lock' = Lease(ProcOf(t), now[t] + leaseMs)
                      /\ \A u \in Threads :
                           ProcOf(u) # ProcOf(t) => pc[u] \notin HoldingPcs]_vars

\* one instance has inserted the lock row and holds the lease while the
\* other, whose findUnique saw no row, is about to insert
C25_Witness ==
  \E t \in Threads, u \in Threads :
    /\ ProcOf(t) # ProcOf(u)
    /\ pc[u] = "acq_create"
    /\ pc[t] \in HoldingPcs /\ now[t] = now[u]
    /\ lock = Lease(ProcOf(t), now[t] + leaseMs)

\* C26: a refreshLease or releaseLease that reaches the store when the lock
\* row belongs to another owner leaves the row as it is
C26_FormerOwnerCannotTouchLease ==
  [][\A t \in Threads :
       ~OwnedBy(lock, ProcOf(t))
         => /\ (refresh[t] # NoTime /\ refresh'[t] = NoTime) => lock' = lock
            /\ (pc[t] \in ReleasePcs /\ pc'[t] = "idle") => lock' = lock]_vars

\* a tick whose lease ran out and was taken over has released and has no
\* heartbeat call in flight, and the row is still the new owner's with its
\* lease in the future
C26_Witness ==
  /\ ret.result = "ok" /\ ret.acquired
  /\ hbAt[ret.thread] = NoTime /\ refresh[ret.thread] = NoTime
  /\ clock > InitClock
  /\ lock.exists /\ lock.ownerId # ProcOf(ret.thread)
  /\ lock.leaseExpiresAt > clock

----------------------------------------------------------------------------
(* runTriage before the provider call: the evidence of a run.  In the
   specifications above a live run only resolves or rejects; here its
   runTriage goes through its stages, for the run of an alert (processAlert)
   and for the children made by continueRun and rerunRun *)

Evidence == {"gathered", "fallback"}

\* let evidence = options?.evidence ?? null: continueRun hands over the
\* previous run's evidence, processAlert and rerunRun hand over none
Given(r) == IF runs[r].gather THEN "none" ELSE runs[r].evidence

TriageStage(r, row) ==
  /\ r \in live
  /\ runs' = [runs EXCEPT ![r] = row]
  /\ ret' = NoRet
  /\ UNCHANGED <<clock, cfgVars, ticks, lock, lastRunAt, lastError, events, live,
                 procVars, tickVars, cycleVars, refresh, reproc, faults>>

\* a runTriage that calls gatherEvidence whatever its options say
TriageStartsAlwaysGathers(r) ==
  /\ runs[r].stage = "created"
  /\ TriageStage(r, [runs[r] EXCEPT !.bundle = Given(r), !.stage = "gathering",
                                    !.gathers = @ + 1])

\* if (options?.gatherEvidence !== false && !evidence) evidence = await
\* gatherEvidence(...); if (evidence) triageRun.update(...)
TriageStarts(r) ==
  /\ runs[r].stage = "created"
  /\ IF runs[r].gather /\ Given(r) = "none"
       THEN TriageStage(r, [runs[r] EXCEPT !.bundle = Given(r), !.stage = "gathering",
                                           !.gathers = @ + 1])
       ELSE TriageStage(r, [runs[r] EXCEPT !.bundle = Given(r),
                                           !.stage = IF Given(r) = "none"
                                                       THEN "provider" ELSE "save"])

\* gatherEvidence returned its bundle
GatherReturns(r) ==
  /\ runs[r].stage = "gathering"
  /\ TriageStage(r, [runs[r] EXCEPT !.bundle = "gathered", !.stage = "save"])

\* a catch that lets the failure of gatherEvidence fail the run
GatherThrowsFailsRun(r) ==
  /\ runs[r].stage = "gathering"
  /\ TriageStage(r, [runs[r] EXCEPT !.status = "failed", !.error = "evidence",
                                    !.stage = "done"])

\* gatherEvidence threw: evidence = this.buildEvidenceFallback(error)
GatherThrows(r) ==
  /\ runs[r].stage = "gathering"
  /\ TriageStage(r, [runs[r] EXCEPT !.bundle = "fallback", !.stage = "save"])

\* triageRun.update({ where: { id: run.id }, data: { evidence, ... } })
EvidenceSaved(r) ==
  /\ runs[r].stage = "save"
  /\ TriageStage(r, [runs[r] EXCEPT !.evidence = runs[r].bundle, !.stage = "provider"])

\* executeProviderRun is called: provider.run resolves or rejects
ProviderResolves(r) ==
  /\ r \in RunIds
  /\ runs[r].stage = "provider"
  /\ ProviderCompletes(r)
ProviderRejects(r) ==
  /\ r \in RunIds
  /\ runs[r].stage = "provider"
  /\ ProviderFails(r)

InitTriage == InitWith({DefaultLeaseMs}, {NoTime}, {<<"a">>, <<"a", "b">>})
NextTriage ==
  \/ \E t \in SoloThreads : TriggerRun(t)
  \/ \E t \in SoloThreads :
       \/ StaleFind(t) \/ AcquireUpdate(t) \/ AcquireFind(t) \/ AcquireCreate(t)
       \/ ReadState(t) \/ CycleStart(t) \/ CycleCollect(t) \/ ProcessAlert(t)
       \/ CycleSuccess(t) \/ Release(t)
  \/ \E r \in RunIds :
       \/ TriageStarts(r) \/ GatherReturns(r) \/ GatherThrows(r) \/ EvidenceSaved(r)
       \/ ProviderResolves(r) \/ ProviderRejects(r)
       \/ ContinueRun(r) \/ RerunRun(r)
SpecTriage == InitTriage /\ [][NextTriage]_vars

\* the rows made by continueRun and by rerunRun
Continued(r) == r \in RunIds /\ runs[r].parent # 0 /\ ~runs[r].gather
Rerun(r) == r \in RunIds /\ runs[r].parent # 0 /\ runs[r].gather

C32_EvidenceFailureKeepsTheRun ==
  [][\A r \in RunIds :
       /\ (runs[r].stage = "gathering" /\ runs'[r] # runs[r]) =>
            /\ runs'[r].status = "running"
            /\ runs'[r].stage = "save"
            /\ runs'[r].bundle \in Evidence
       /\ runs'[r].bundle = "fallback" =>
            /\ runs'[r].stage \in {"save", "provider"}
            /\ runs'[r].stage = "provider" => runs'[r].evidence = "fallback"
            /\ runs'[r].status = "failed" => runs'[r].outcome = "rejected"
            /\ runs'[r].status = "complete" => runs'[r].outcome = "resolved"]_vars

\* a run whose evidence gathering threw has ended complete
C32_Witness ==
  \E r \in RunIds :
    /\ runs[r].gathers > 0
    /\ runs[r].evidence = "fallback"
    /\ runs[r].status = "complete"

----------------------------------------------------------------------------
(* The minute cron with TRIAGE_INTERVAL_MS at, just above and well above the
   cron's period.  The stored lastRunAt is at any gap before the first
   firing; a minute passes between firings while no tick is under way *)

CronIntervals == {IntervalMs, DefaultIntervalMs, DefaultIntervalMs + 1,
                  2 * DefaultIntervalMs, 5 * DefaultIntervalMs}

\* @Cron(CronExpression.EVERY_MINUTE): the next firing is a minute later
MinutePasses ==
  /\ clock < LateClock + MaxTicks * CronPeriodMs
  /\ \A t \in Threads : pc[t] = "idle" /\ cpc[t] = "none"
  /\ clock' = clock + CronPeriodMs
  /\ ret' = NoRet
  /\ UNCHANGED <<cfgVars, ticks, storeVars, procVars, tickVars, cycleVars, refresh,
                 reproc, faults>>

InitCron ==
  /\ clock = LateClock
  /\ ev = NoEvidence
  /\ prov = NoProvider
  /\ tr = NoTruncate
  /\ intervalMs \in CronIntervals
  /\ maxCatchup = MaxCatchup
  /\ InitIdle({DefaultLeaseMs}, {NoTime} \cup {LateClock - g : g \in Gaps}, {<<>>})
NextCron ==
  \/ MinutePasses
  \/ \E t \in SoloThreads : HandleCron(t)
  \/ \E t \in SoloThreads :
       \/ StaleFind(t) \/ AcquireUpdate(t) \/ AcquireFind(t) \/ AcquireCreate(t)
       \/ ReadState(t) \/ CycleStart(t) \/ CycleCollect(t) \/ CycleSuccess(t)
       \/ Release(t)
SpecCron == InitCron /\ [][NextCron]_vars

\* C33: with the interval above the cron's period, a firing of handleCron at
\* which interval - 1 s or more has passed since the stored lastRunAt calls
\* runSchedulerTick.
C33_CronTicksOnceIntervalElapsed ==
  [][\A t \in SoloThreads :
       (/\ ticks' = ticks + 1
        /\ intervalMs > CronPeriodMs
        /\ lastRunAt # NoTime
        /\ clock - lastRunAt >= intervalMs - CronSlackMs) =>
         pc'[t] # "idle"]_vars

----------------------------------------------------------------------------
(* The stale-run sweep against a provider call, both with their default
   timeouts.  A run is created by reprocessLastError; after an evidence
   gathering of no more than the two-minute margin of TRIAGE_RUN_TIMEOUT_MS
   its provider call starts in the same process; the sweep is the
   failStaleRuns of a tick of any process.  Time moves in steps of that
   margin, a due timer fires first *)

DefaultProviderTimeoutMs == 600000
RunTimeoutMarginMs == 120000
OpencodeTimeoutMs == 1200000
MaxSweepSteps == 7

\* envNumber('TRIAGE_RUN_TIMEOUT_MS', envNumber('TRIAGE_PROVIDER_TIMEOUT_MS',
\* 600_000) + 120_000)
DefaultRunTimeoutMs == DefaultProviderTimeoutMs + RunTimeoutMarginMs

\* Number(process.env.TRIAGE_PROVIDER_TIMEOUT_MS ?? ...) of each provider
DefaultTimeoutOf(kind) ==
  IF kind = "opencode" THEN OpencodeTimeoutMs ELSE DefaultProviderTimeoutMs

\* executeProviderRun: provider.run(...) is called for run r
ProviderStarts(r) ==
  /\ r \in live
  /\ prov = NoProvider
  /\ clock <= runs[r].createdAt + RunTimeoutMarginMs
  /\ \E kind \in {"codex", "opencode"}, fallback \in BOOLEAN :
       /\ kind = "opencode" => ~fallback
       /\ prov' = [kind |-> kind, allowFallback |-> fallback, model |-> fallback,
                   timeoutMs |-> DefaultTimeoutOf(kind), startedAt |-> clock,
                   children |-> <<Spawned(clock, DefaultTimeoutOf(kind), fallback)>>,
                   selfExit |-> FALSE, result |-> "pending", thrownBy |-> 0,
                   settledAt |-> NoTime]
  /\ UNCHANGED <<clock, hostVars>>

\* provider.run has settled: executeProviderRun's update, or failRun
ProviderReturns(r) ==
  /\ prov.result \notin {"none", "pending"}
  /\ IF prov.result = "resolved" THEN ProviderCompletes(r) ELSE ProviderFails(r)

\* failStaleRuns at the start of a tick of any process
FailStaleRuns ==
  /\ StaleAfter(clock, DefaultRunTimeoutMs) # {}
  /\ runs' = FailAll(runs, StaleAfter(clock, DefaultRunTimeoutMs), "Timed out")
  /\ ret' = NoRet
  /\ UNCHANGED <<clock, cfgVars, ticks, lock, lastRunAt, lastError, events, live,
                 procVars, tickVars, cycleVars, refresh, reproc, faults>>

SweepTick ==
  /\ ~ProviderTimerDue
  /\ clock < InitClock + MaxSweepSteps * RunTimeoutMarginMs
  /\ clock' = clock + RunTimeoutMarginMs
  /\ UNCHANGED <<prov, hostVars>>

InitSweep == InitWith({DefaultLeaseMs}, {NoTime}, {<<>>})
NextSweep ==
  \/ SweepTick
  \/ ReprocessLastError("a")
  \/ ReprocessAlert
  \/ \E r \in RunIds : ProviderStarts(r)
  \/ \E c \in Attempts : TimeoutFires(c)
  \/ \E c \in Attempts : KillFires(c)
  \/ \E c \in Attempts, ok \in BOOLEAN : ChildCloses(c, ok)
  \/ \E r \in RunIds : ProviderReturns(r)
  \/ FailStaleRuns
SpecSweep == InitSweep /\ [][NextSweep]_vars

\* C35: while the provider call of a run has not settled (it is within its
\* own timeout, the fallback attempt included), the run is not failed by the
\* sweep.
C35_SweepSparesRunningProvider ==
  \A r \in RunIds :
    (r \in live /\ prov.result = "pending") =>
      ~(runs[r].status = "failed" /\ runs[r].error = "Timed out")

----------------------------------------------------------------------------
(* A provider attempt with all three of its settling events: the provider
   call of SpecProvider, and the child's 'error' event *)

\* child.on('error', err): clearInterval(heartbeat); reject(err).  The event
\* comes when the process could not be spawned (there is no process then) or
\* could not be signalled (the process lives on); the timeout stays armed
ErrorEvent(c, spawned) ==
  /\ c \in DOMAIN prov.children
  /\ prov.children[c].state = "running"
  /\ ~spawned => clock = prov.startedAt /\ c = 1
  /\ LET p == [prov EXCEPT !.children[c].state =
                             IF spawned THEN "running" ELSE "unspawned"]
     IN prov' = Rejects(p, c, "error")
  /\ UNCHANGED <<clock, hostVars>>

NextAttempt ==
  \/ NextProvider
  \/ \E c \in Attempts, spawned \in BOOLEAN : ErrorEvent(c, spawned)
SpecAttempt == InitProvider /\ [][NextAttempt]_vars

\* C36: the promise of an attempt that has settled keeps its state and its
\* error whatever event comes later, and so does the result of the provider
\* call; once the child has been closed its timeout timer is disarmed.
C36_AttemptSettlesOnce ==
  [][/\ \A c \in DOMAIN prov.children :
          /\ prov.children[c].promise # "pending" =>
               /\ prov'.children[c].promise = prov.children[c].promise
               /\ prov'.children[c].error = prov.children[c].error
          /\ prov'.children[c].state = "exited" => prov'.children[c].timerAt = NoTime
     /\ prov.result # "pending" => prov'.result = prov.result]_vars

\* the attempt was rejected by its timeout and its child has then closed
\* with exit code 0 in answer to SIGTERM: the attempt is still rejected
C36_Witness ==
  /\ prov.kind # "none"
  /\ prov.children[1].error = "timeout"
  /\ prov.children[1].code = "zero"
  /\ prov.children[1].promise = "rejected"
  /\ Len(prov.children) = 1 /\ prov.result = "timeout"

----------------------------------------------------------------------------
(* forceClearRunning called on either instance while a manually triggered
   tick of p1 is anywhere between its start and its release; no time passes *)

InitClear == InitWith({DefaultLeaseMs}, {NoTime}, {<<>>, <<"a">>})
NextClear ==
  \/ \E t \in SoloThreads : TriggerRun(t)
  \/ \E t \in SoloThreads :
       \/ StaleFind(t) \/ AcquireUpdate(t) \/ AcquireFind(t) \/ AcquireCreate(t)
       \/ ReadState(t) \/ CycleStart(t) \/ CycleCollect(t) \/ ProcessAlert(t)
       \/ CycleSuccess(t) \/ Release(t)
  \/ \E r \in RunIds : ProviderCompletes(r)
  \/ \E p \in Procs : ForceClearReturns(p)
SpecClear == InitClear /\ [][NextClear]_vars

\* C38: when forceClearRunning has returned, no run is running, the lock row
\* (if there is one) has leaseExpiresAt at the epoch, and the running flag of
\* the instance it was called on is false.
C38_ForceClearAlwaysClears ==
  ret.result \in {"cleared", "nothing_cleared"} =>
    /\ RunningIds = {}
    /\ lock.exists => lock.leaseExpiresAt = Epoch
    /\ ~isRunning[ret.thread[1]]

============================================================================
